---- MODULE Spec2Model ----
(***************************************************************************)
(* Model of backend/backend/cv/model_service.py: TableBounds, the rule     *)
(* state machine GameStateTracker (process_bounce, process_net_hit,        *)
(* _award_point, finish_rally), EnhancedEventDetector with its speed       *)
(* smoothing, the frame loop of analyze_video with the statistics it       *)
(* writes at the end of the video, and the manual table calibration.       *)
(*                                                                         *)
(* Frame numbers, pixel coordinates and fps are integers.  Durations are   *)
(* kept in frames (the code divides by fps when it reports them).  Speeds  *)
(* are fixed-point integers.                                               *)
(***************************************************************************)
EXTENDS Integers, Sequences, FiniteSets, TLC

\* ------------------------------------------------------------------ bounds
\* last frame index a call may carry
MaxFrame == 7
\* largest frame distance between two consecutive tracker calls
MaxGap == 3
\* number of frames of the video the frame loop reads
MaxLoopFrame == 39
\* number of frames of the video that show the ball
MaxDetections == 7
\* the ball is seen only in the first MaxBallFrame frames of the video
MaxBallFrame == 8

\* frame rates of the session (25: 0.08*fps is the integer 2; 30: 0.08*fps = 2.4)
FpsSet == {25, 30}

\* ball x / y coordinates offered to process_bounce
XS == {200, 450, 500, 800, 1200}
YS == {250, 700}

\* ------------------------------------------------------------- enumerations
\* GamePhase
WAITING_FOR_SERVE == "WAITING_FOR_SERVE"
SERVE_IN_PROGRESS == "SERVE_IN_PROGRESS"
RALLY_IN_PROGRESS == "RALLY_IN_PROGRESS"
POINT_SCORED == "POINT_SCORED"
GamePhase == {WAITING_FOR_SERVE, SERVE_IN_PROGRESS, RALLY_IN_PROGRESS, POINT_SCORED}

\* Side
LEFT == "LEFT"
RIGHT == "RIGHT"
UNKNOWN == "UNKNOWN"
Side == {LEFT, RIGHT, UNKNOWN}

\* default margin of TableBounds.contains
Margin == 20
\* initial value of last_bounce_frame
InitialLastBounceFrame == -100

\* a key that a returned dict does not carry
Absent == -1

\* `if no_ball_frames > 30` of the frame loop
NoBallThreshold == 30
\* deque(maxlen=40) of the detector's history
HistoryMaxLen == 40
\* _detect_bounce needs 6 positions
BounceWindow == 6
\* a warm-up of half the bounce window
MinHistoryShort == BounceWindow \div 2
\* add_position returns early below 4 positions
MinHistory == 4
\* default threshold of TableBounds.near_net
NetThreshold == 30
\* _detect_net_hit: at most 100 px from the table's vertical centre
NetBandPx == 100

\* ---------------------------------------------------------------- geometry
\* the geometry of the specification's scenarios and the one of the usage text
SpecTable == [x_min |-> 0, y_min |-> 0, x_max |-> 1000, y_max |-> 500, net_x |-> 500]
UsageTable == [x_min |-> 100, y_min |-> 200, x_max |-> 800, y_max |-> 600, net_x |-> 450]
Geometries == {SpecTable, UsageTable}

\* contains with the expanded boundary left out
contains_open(tb, x, y, margin) ==
    /\ tb.x_min - margin < x
    /\ x < tb.x_max + margin
    /\ tb.y_min - margin < y
    /\ y < tb.y_max + margin

\* TableBounds.contains
contains(tb, x, y, margin) ==
    /\ tb.x_min - margin <= x
    /\ x <= tb.x_max + margin
    /\ tb.y_min - margin <= y
    /\ y <= tb.y_max + margin

\* get_side with the net line counted to the right side
get_side_net_is_right(tb, x) == IF x < tb.net_x THEN LEFT ELSE RIGHT

\* TableBounds.get_side
get_side(tb, x) ==
    IF x < tb.net_x THEN LEFT
    ELSE IF x > tb.net_x THEN RIGHT
    ELSE UNKNOWN

\* table_bounds = None
NoTable == [none |-> TRUE]

\* ------------------------------------------------------------------- events
\* a dict returned by the tracker; Absent marks a key the dict does not have
Event(type, label, is_scoring, scoring_side, rally_length, duration_frames) ==
    [type |-> type, label |-> label, is_scoring |-> is_scoring,
     scoring_side |-> scoring_side, rally_length |-> rally_length,
     duration_frames |-> duration_frames]

\* the return value None
NoEvent == Event("None", "None", FALSE, Absent, Absent, Absent)

\* str.upper() on the type strings the tracker produces
Upper(type) ==
    CASE type = "serve" -> "SERVE"
      [] type = "bounce" -> "BOUNCE"
      [] type = "net_hit" -> "NET_HIT"
      [] OTHER -> type

\* GameStateTracker._side_value on a Side
side_value(side) ==
    CASE side = LEFT -> 1
      [] side = RIGHT -> 2
      [] OTHER -> 0

\* `Side.RIGHT if s == Side.LEFT else Side.LEFT`
Opposite(s) == IF s = LEFT THEN RIGHT ELSE LEFT

\* int(self.fps * 0.08)
DebounceFrames(f) == (f * 8) \div 100

VARIABLES
    fps,                \* GameStateTracker.fps
    table_bounds,       \* the session's TableBounds
    frame_idx,          \* frame of the latest call
    phase,
    server,
    score,
    rally_shot_count,
    rally_start_frame,
    last_bounce_side,
    last_bounce_frame,
    awards,             \* number of _award_point invocations so far
    ret,                \* the latest call: its inputs and what it returned
    scenario_step,      \* progress through the serve 200 / bounce 800 / bounce 1200 scenario
    no_ball_frames,     \* analyze_video: frames without a detection
    events,             \* output_results["events"]
    total_rallies,      \* output_results["statistics"]["totalRallies"]
    ball_detections,    \* output_results["statistics"]["ballDetections"]
    history_len,        \* len(detector.history)
    last_reset_frame,   \* latest frame with a detection or a finish_rally call, -1 if none
    quiet,              \* frames without a detection since the latest detection
    mark,               \* tracker and output as they were after the latest detection
    corners,            \* the four corner points offered to the manual calibration
    config_state,       \* where the session's configuration stands
    history,            \* detector.history, oldest position first
    stream,             \* the video the session reads
    drops,              \* frames of the video on which the ball was missed
    out,                \* the latest detector call or function application
    statistics,         \* output_results["statistics"] and "tableDetected" once written
    ema_speed_kmh       \* detector._ema_speed_kmh in units of 0.000005 km/h

vars == <<fps, table_bounds, frame_idx, phase, server, score, rally_shot_count,
          rally_start_frame, last_bounce_side, last_bounce_frame, awards, ret,
          scenario_step, no_ball_frames, events, total_rallies, ball_detections,
          history_len, last_reset_frame, quiet, mark, corners, config_state,
          history, stream, drops, out, statistics, ema_speed_kmh>>

\* the detector's pixel history, its input stream and its latest call
detector_vars == <<history, stream, drops, out>>

\* the manual calibration input and the configuration's progress
config_vars == <<corners, config_state>>

\* the output's aggregates and the detector's smoothed speed
report_vars == <<statistics, ema_speed_kmh>>

\* the state of the frame loop and of the detector's history
loop_vars == <<no_ball_frames, events, total_rallies, ball_detections, history_len,
               last_reset_frame, quiet, mark>>

\* the tracker object
Self ==
    [fps |-> fps, phase |-> phase, server |-> server, score |-> score,
     rally_shot_count |-> rally_shot_count, rally_start_frame |-> rally_start_frame,
     last_bounce_side |-> last_bounce_side, last_bounce_frame |-> last_bounce_frame,
     awards |-> awards]

total_points(s) == s[LEFT] + s[RIGHT]

\* GameStateTracker.should_switch_server
should_switch_server(self) == total_points(self.score) % 2 = 0

\* _award_point that leaves last_bounce_side as it was
award_point_keep_side(self, side) ==
    LET s1 == IF side \in {LEFT, RIGHT}
              THEN [self EXCEPT !.score[side] = @ + 1]
              ELSE self
        s2 == IF should_switch_server(s1)
              THEN [s1 EXCEPT !.server = Opposite(@)]
              ELSE s1
    IN  [s2 EXCEPT !.phase = WAITING_FOR_SERVE,
                   !.rally_shot_count = 0,
                   !.awards = @ + 1]

\* _award_point that parks the tracker in POINT_SCORED
award_point_point_scored(self, side) ==
    LET s1 == IF side \in {LEFT, RIGHT}
              THEN [self EXCEPT !.score[side] = @ + 1]
              ELSE self
        s2 == IF should_switch_server(s1)
              THEN [s1 EXCEPT !.server = Opposite(@)]
              ELSE s1
    IN  [s2 EXCEPT !.phase = POINT_SCORED,
                   !.rally_shot_count = 0,
                   !.last_bounce_side = UNKNOWN,
                   !.awards = @ + 1]

\* _award_point that counts the point twice
award_point_twice(self, side) ==
    LET s1 == IF side \in {LEFT, RIGHT}
              THEN [self EXCEPT !.score[side] = @ + 2]
              ELSE self
        s2 == IF should_switch_server(s1)
              THEN [s1 EXCEPT !.server = Opposite(@)]
              ELSE s1
    IN  [s2 EXCEPT !.phase = WAITING_FOR_SERVE,
                   !.rally_shot_count = 0,
                   !.last_bounce_side = UNKNOWN,
                   !.awards = @ + 1]

\* _award_point that leaves the phase as it is
award_point_keep_phase(self, side) ==
    LET s1 == IF side \in {LEFT, RIGHT}
              THEN [self EXCEPT !.score[side] = @ + 1]
              ELSE self
        s2 == IF should_switch_server(s1)
              THEN [s1 EXCEPT !.server = Opposite(@)]
              ELSE s1
    IN  [s2 EXCEPT !.rally_shot_count = 0,
                   !.last_bounce_side = UNKNOWN,
                   !.awards = @ + 1]

\* GameStateTracker._award_point
award_point(self, side) ==
    LET s1 == IF side \in {LEFT, RIGHT}
              THEN [self EXCEPT !.score[side] = @ + 1]
              ELSE self
        s2 == IF should_switch_server(s1)
              THEN [s1 EXCEPT !.server = Opposite(@)]
              ELSE s1
    IN  [s2 EXCEPT !.phase = WAITING_FOR_SERVE,
                   !.rally_shot_count = 0,
                   !.last_bounce_side = UNKNOWN,
                   !.awards = @ + 1]

\* bounce_waiting_for_serve with the on-table test of the serve dropped
bounce_waiting_for_serve_any_y(self, frame, on_table, bounce_side) ==
    IF bounce_side = self.server
    THEN [self |-> [self EXCEPT !.phase = SERVE_IN_PROGRESS,
                                !.rally_start_frame = frame,
                                !.rally_shot_count = 1,
                                !.last_bounce_side = bounce_side],
          event |-> Event("serve", "Serve", FALSE, Absent, Absent, Absent)]
    ELSE LET opponent == Opposite(self.server)
         IN  [self |-> award_point(self, opponent),
              event |-> Event("MISS", "Service Fault", TRUE, side_value(opponent),
                              Absent, Absent)]

\* process_bounce, branch `phase == WAITING_FOR_SERVE`
bounce_waiting_for_serve(self, frame, on_table, bounce_side) ==
    IF on_table /\ bounce_side = self.server
    THEN [self |-> [self EXCEPT !.phase = SERVE_IN_PROGRESS,
                                !.rally_start_frame = frame,
                                !.rally_shot_count = 1,
                                !.last_bounce_side = bounce_side],
          event |-> Event("serve", "Serve", FALSE, Absent, Absent, Absent)]
    ELSE LET opponent == Opposite(self.server)
         IN  [self |-> award_point(self, opponent),
              event |-> Event("MISS", "Service Fault", TRUE, side_value(opponent),
                              Absent, Absent)]

\* bounce_serve_in_progress with a wrong-side serve scored for the server
bounce_serve_in_progress_to_server(self, frame, on_table, bounce_side) ==
    LET opponent_side == Opposite(self.server)
    IN  IF on_table /\ bounce_side = opponent_side
        THEN [self |-> [self EXCEPT !.phase = RALLY_IN_PROGRESS,
                                    !.rally_shot_count = @ + 1,
                                    !.last_bounce_side = bounce_side],
              event |-> Event("bounce", "Ball Bounce", FALSE, Absent, Absent, Absent)]
        ELSE IF ~on_table
        THEN [self |-> award_point(self, opponent_side),
              event |-> Event("MISS", "Serve Out", TRUE, side_value(opponent_side),
                              Absent, Absent)]
        ELSE [self |-> award_point(self, self.server),
              event |-> Event("MISS", "Service Error", TRUE, side_value(self.server),
                              Absent, Absent)]

\* process_bounce, branch `phase == SERVE_IN_PROGRESS`
bounce_serve_in_progress(self, frame, on_table, bounce_side) ==
    LET opponent_side == Opposite(self.server)
    IN  IF on_table /\ bounce_side = opponent_side
        THEN [self |-> [self EXCEPT !.phase = RALLY_IN_PROGRESS,
                                    !.rally_shot_count = @ + 1,
                                    !.last_bounce_side = bounce_side],
              event |-> Event("bounce", "Ball Bounce", FALSE, Absent, Absent, Absent)]
        ELSE IF ~on_table
        THEN [self |-> award_point(self, opponent_side),
              event |-> Event("MISS", "Serve Out", TRUE, side_value(opponent_side),
                              Absent, Absent)]
        ELSE [self |-> award_point(self, opponent_side),
              event |-> Event("MISS", "Service Error", TRUE, side_value(opponent_side),
                              Absent, Absent)]

\* bounce_rally_in_progress with last_bounce_side left alone on a legal bounce
bounce_rally_in_progress_stale_side(self, frame, on_table, bounce_side) ==
    LET expected_side == Opposite(self.last_bounce_side)
    IN  IF on_table /\ bounce_side = expected_side
        THEN LET s1 == [self EXCEPT !.rally_shot_count = @ + 1]
             IN  [self |-> s1,
                  event |-> Event("bounce", "Ball Bounce", FALSE, Absent,
                                  s1.rally_shot_count, Absent)]
        ELSE IF ~on_table
        THEN LET scoring_side == self.last_bounce_side
             IN  [self |-> award_point(self, scoring_side),
                  event |-> Event("MISS", "Ball Out", TRUE, side_value(scoring_side),
                                  Absent, Absent)]
        ELSE LET scoring_side == bounce_side
             IN  [self |-> award_point(self, scoring_side),
                  event |-> Event("MISS", "Double Bounce", TRUE, side_value(scoring_side),
                                  Absent, Absent)]

\* bounce_rally_in_progress with a double bounce scored for the other side
bounce_rally_in_progress_double_to_hitter(self, frame, on_table, bounce_side) ==
    LET expected_side == Opposite(self.last_bounce_side)
    IN  IF on_table /\ bounce_side = expected_side
        THEN LET s1 == [self EXCEPT !.rally_shot_count = @ + 1,
                                    !.last_bounce_side = bounce_side]
             IN  [self |-> s1,
                  event |-> Event("bounce", "Ball Bounce", FALSE, Absent,
                                  s1.rally_shot_count, Absent)]
        ELSE IF ~on_table
        THEN LET scoring_side == self.last_bounce_side
             IN  [self |-> award_point(self, scoring_side),
                  event |-> Event("MISS", "Ball Out", TRUE, side_value(scoring_side),
                                  Absent, Absent)]
        ELSE LET scoring_side == Opposite(bounce_side)
             IN  [self |-> award_point(self, scoring_side),
                  event |-> Event("MISS", "Double Bounce", TRUE, side_value(scoring_side),
                                  Absent, Absent)]

\* bounce_rally_in_progress with a ball out scored for the side that hit it out
bounce_rally_in_progress_out_to_hitter(self, frame, on_table, bounce_side) ==
    LET expected_side == Opposite(self.last_bounce_side)
    IN  IF on_table /\ bounce_side = expected_side
        THEN LET s1 == [self EXCEPT !.rally_shot_count = @ + 1,
                                    !.last_bounce_side = bounce_side]
             IN  [self |-> s1,
                  event |-> Event("bounce", "Ball Bounce", FALSE, Absent,
                                  s1.rally_shot_count, Absent)]
        ELSE IF ~on_table
        THEN LET scoring_side == Opposite(self.last_bounce_side)
             IN  [self |-> award_point(self, scoring_side),
                  event |-> Event("MISS", "Ball Out", TRUE, side_value(scoring_side),
                                  Absent, Absent)]
        ELSE LET scoring_side == bounce_side
             IN  [self |-> award_point(self, scoring_side),
                  event |-> Event("MISS", "Double Bounce", TRUE, side_value(scoring_side),
                                  Absent, Absent)]

\* process_bounce, branch `phase == RALLY_IN_PROGRESS`
bounce_rally_in_progress(self, frame, on_table, bounce_side) ==
    LET expected_side == Opposite(self.last_bounce_side)
    IN  IF on_table /\ bounce_side = expected_side
        THEN LET s1 == [self EXCEPT !.rally_shot_count = @ + 1,
                                    !.last_bounce_side = bounce_side]
             IN  [self |-> s1,
                  event |-> Event("bounce", "Ball Bounce", FALSE, Absent,
                                  s1.rally_shot_count, Absent)]
        ELSE IF ~on_table
        THEN LET scoring_side == self.last_bounce_side
             IN  [self |-> award_point(self, scoring_side),
                  event |-> Event("MISS", "Ball Out", TRUE, side_value(scoring_side),
                                  Absent, Absent)]
        ELSE LET scoring_side == bounce_side
             IN  [self |-> award_point(self, scoring_side),
                  event |-> Event("MISS", "Double Bounce", TRUE, side_value(scoring_side),
                                  Absent, Absent)]

\* process_bounce whose debounce check also restarts the window on a discarded
\* candidate
process_bounce_restarts_window(self, frame, x, y, tb) ==
    IF frame - self.last_bounce_frame < DebounceFrames(self.fps)
    THEN [self |-> [self EXCEPT !.last_bounce_frame = frame], accepted |-> FALSE,
          event |-> NoEvent]
    ELSE LET on_table == contains(tb, x, y, Margin)
             bounce_side == get_side(tb, x)
             r == CASE self.phase = WAITING_FOR_SERVE ->
                         bounce_waiting_for_serve(self, frame, on_table, bounce_side)
                    [] self.phase = SERVE_IN_PROGRESS ->
                         bounce_serve_in_progress(self, frame, on_table, bounce_side)
                    [] self.phase = RALLY_IN_PROGRESS ->
                         bounce_rally_in_progress(self, frame, on_table, bounce_side)
                    [] OTHER -> [self |-> self, event |-> NoEvent]
         IN  [self |-> [r.self EXCEPT !.last_bounce_frame = frame],
              accepted |-> TRUE, event |-> r.event]

\* GameStateTracker.process_bounce
process_bounce(self, frame, x, y, tb) ==
    IF frame - self.last_bounce_frame < DebounceFrames(self.fps)
    THEN [self |-> self, accepted |-> FALSE, event |-> NoEvent]
    ELSE LET on_table == contains(tb, x, y, Margin)
             bounce_side == get_side(tb, x)
             r == CASE self.phase = WAITING_FOR_SERVE ->
                         bounce_waiting_for_serve(self, frame, on_table, bounce_side)
                    [] self.phase = SERVE_IN_PROGRESS ->
                         bounce_serve_in_progress(self, frame, on_table, bounce_side)
                    [] self.phase = RALLY_IN_PROGRESS ->
                         bounce_rally_in_progress(self, frame, on_table, bounce_side)
                    [] OTHER -> [self |-> self, event |-> NoEvent]
         IN  [self |-> [r.self EXCEPT !.last_bounce_frame = frame],
              accepted |-> TRUE, event |-> r.event]

\* process_net_hit that lets a net contact on the serve pass as a plain net hit
process_net_hit_let_serve(self) ==
    IF self.phase \in {SERVE_IN_PROGRESS, RALLY_IN_PROGRESS}
    THEN [self |-> self,
          event |-> Event("net_hit", "Net Hit", FALSE, Absent, Absent, Absent)]
    ELSE [self |-> self, event |-> NoEvent]

\* process_net_hit that scores a net contact in a rally against the hitter
process_net_hit_rally_scores(self) ==
    IF self.phase = SERVE_IN_PROGRESS
    THEN LET opponent == Opposite(self.server)
         IN  [self |-> award_point(self, opponent),
              event |-> Event("MISS", "Net on Serve", TRUE, side_value(opponent),
                              Absent, Absent)]
    ELSE IF self.phase = RALLY_IN_PROGRESS
    THEN [self |-> award_point(self, self.last_bounce_side),
          event |-> Event("net_hit", "Net Hit", TRUE,
                          side_value(self.last_bounce_side), Absent, Absent)]
    ELSE [self |-> self, event |-> NoEvent]

\* GameStateTracker.process_net_hit
process_net_hit(self) ==
    IF self.phase = SERVE_IN_PROGRESS
    THEN LET opponent == Opposite(self.server)
         IN  [self |-> award_point(self, opponent),
              event |-> Event("MISS", "Net on Serve", TRUE, side_value(opponent),
                              Absent, Absent)]
    ELSE IF self.phase = RALLY_IN_PROGRESS
    THEN [self |-> self,
          event |-> Event("net_hit", "Net Hit", FALSE, Absent, Absent, Absent)]
    ELSE [self |-> self, event |-> NoEvent]

\* GameStateTracker.finish_rally
finish_rally(self, final_frame) ==
    IF self.rally_shot_count > 0
    THEN LET duration_frames == final_frame - self.rally_start_frame
         IN  IF self.phase = RALLY_IN_PROGRESS
             THEN LET scoring_side == self.last_bounce_side
                      s1 == award_point(self, scoring_side)
                  IN  [self |-> s1,
                       event |-> Event("SCORE", "Rally End", TRUE,
                                       side_value(scoring_side),
                                       s1.rally_shot_count, duration_frames)]
             ELSE [self |-> [self EXCEPT !.rally_shot_count = 0], event |-> NoEvent]
    ELSE [self |-> self, event |-> NoEvent]

\* what `ret` holds about a call
Call(op, on_table, side, accepted, event) ==
    [op |-> op, on_table |-> on_table, side |-> side, accepted |-> accepted,
     event |-> event]

\* the scenario of the specification: accepted bounces at x = 200, 800, 1200 on
\* SpecTable, nothing else called in between; -1 once the run has left it
ScenarioNext(step, tb, op, x, on_table, accepted) ==
    IF tb = SpecTable /\ op = "process_bounce" /\ accepted
    THEN CASE step = 0 /\ x = 200 /\ on_table -> 1
           [] step = 1 /\ x = 800 /\ on_table -> 2
           [] step = 2 /\ x = 1200 -> 3
           [] OTHER -> -1
    ELSE -1

\* the frames the next call may carry: frames arrive in non-decreasing order
NextFrames == {f \in frame_idx .. (frame_idx + MaxGap) : f <= MaxFrame}

\* write a tracker object back to the fields
Store(s) ==
    /\ phase' = s.phase
    /\ server' = s.server
    /\ score' = s.score
    /\ rally_shot_count' = s.rally_shot_count
    /\ rally_start_frame' = s.rally_start_frame
    /\ last_bounce_side' = s.last_bounce_side
    /\ last_bounce_frame' = s.last_bounce_frame
    /\ awards' = s.awards

\* what `mark` keeps of the tracker and of the output
Snapshot ==
    [phase |-> phase, last_bounce_side |-> last_bounce_side, score |-> score,
     awards |-> awards, n_events |-> Len(events), total_rallies |-> total_rallies]

\* nothing has been called yet
NoOut == [op |-> "none"]

\* the statistics before the end of the stream
NoStatistics == [written |-> FALSE]

\* the tracker, the detector and the loop's counters as constructed
FreshFields ==
    /\ frame_idx = 0
    /\ phase = WAITING_FOR_SERVE
    /\ server = LEFT
    /\ score = [s \in {LEFT, RIGHT} |-> 0]
    /\ rally_shot_count = 0
    /\ rally_start_frame = 0
    /\ last_bounce_side = UNKNOWN
    /\ last_bounce_frame = InitialLastBounceFrame
    /\ awards = 0
    /\ ret = Call("init", FALSE, UNKNOWN, FALSE, NoEvent)
    /\ scenario_step = 0
    /\ no_ball_frames = 0
    /\ events = <<>>
    /\ total_rallies = 0
    /\ ball_detections = 0
    /\ history_len = 0
    /\ last_reset_frame = -1
    /\ quiet = 0
    /\ mark = Snapshot
    /\ history = <<>>
    /\ drops = 0
    /\ out = NoOut
    /\ statistics = NoStatistics
    /\ ema_speed_kmh = Absent

\* a fresh session at one of the frame rates, not tied to a scripted video
Fresh ==
    /\ fps \in FpsSet
    /\ stream = "none"
    /\ FreshFields

\* a session whose geometry is already in place
Init ==
    /\ Fresh
    /\ table_bounds \in Geometries
    /\ corners = <<>>
    /\ config_state = "running"

\* a call of process_bounce with a ball position (x, y) of frame f
ProcessBounce ==
    \E f \in NextFrames, x \in XS, y \in YS :
        LET r == process_bounce(Self, f, x, y, table_bounds)
            on_table == contains(table_bounds, x, y, Margin)
        IN  /\ Store(r.self)
            /\ frame_idx' = f
            /\ ret' = Call("process_bounce", on_table, get_side(table_bounds, x),
                           r.accepted, r.event)
            /\ scenario_step' = ScenarioNext(scenario_step, table_bounds,
                                             "process_bounce", x, on_table, r.accepted)
            /\ UNCHANGED <<fps, table_bounds>>
            /\ UNCHANGED loop_vars
            /\ UNCHANGED config_vars
            /\ UNCHANGED detector_vars
            /\ UNCHANGED report_vars

\* a call of process_net_hit on frame f
ProcessNetHit ==
    \E f \in NextFrames :
        LET r == process_net_hit(Self)
        IN  /\ Store(r.self)
            /\ frame_idx' = f
            /\ ret' = Call("process_net_hit", FALSE, UNKNOWN, TRUE, r.event)
            /\ scenario_step' = -1
            /\ UNCHANGED <<fps, table_bounds>>
            /\ UNCHANGED loop_vars
            /\ UNCHANGED config_vars
            /\ UNCHANGED detector_vars
            /\ UNCHANGED report_vars

\* a call of finish_rally(f)
FinishRally ==
    \E f \in NextFrames :
        LET r == finish_rally(Self, f)
        IN  /\ Store(r.self)
            /\ frame_idx' = f
            /\ ret' = Call("finish_rally", FALSE, UNKNOWN, TRUE, r.event)
            /\ scenario_step' = -1
            /\ UNCHANGED <<fps, table_bounds>>
            /\ UNCHANGED loop_vars
            /\ UNCHANGED config_vars
            /\ UNCHANGED detector_vars
            /\ UNCHANGED report_vars

Next == ProcessBounce \/ ProcessNetHit \/ FinishRally

Spec == Init /\ [][Next]_vars

TypeOK ==
    /\ fps \in FpsSet
    /\ table_bounds \in Geometries
    /\ frame_idx \in 0 .. MaxFrame
    /\ phase \in GamePhase
    /\ server \in {LEFT, RIGHT}
    /\ score \in [{LEFT, RIGHT} -> Nat]
    /\ rally_shot_count \in Nat
    /\ rally_start_frame \in 0 .. MaxFrame
    /\ last_bounce_side \in Side
    /\ last_bounce_frame \in {InitialLastBounceFrame} \cup (0 .. MaxFrame)
    /\ awards \in Nat
    /\ scenario_step \in -1 .. 3

\* ------------------------------------------------ detector and frame loop
\* The vertical-velocity pattern of _detect_bounce, the horizontal-velocity
\* pattern of _detect_net_hit and the speed / shot type seen by
\* _detect_special_shot are functions of the pixel history; the frame loop takes
\* their outcomes as inputs of the frame (bounce_pattern, net_pattern, speed_kmh,
\* shot_type).
\* the speed (km/h) and shot type pairs offered to a frame of the loop
SpeedCases == {<<50, "rally">>, <<60, "drive">>, <<80, "smash">>}

\* _detect_special_shot: `rally_shot_count >= 10`
ExtendedRallyShots == 10
\* _detect_special_shot: `speed_kmh > 70 and shot_type == "smash"`
SmashSpeed == 70
\* _detect_special_shot: `speed_kmh > 55`
FastSpeed == 55
\* the "importance" values of the three special events
SmashImportance == 8
FastImportance == 6
RallyImportance == 7

Abs(n) == IF n < 0 THEN -n ELSE n

Min(a, b) == IF a < b THEN a ELSE b

\* TableBounds.near_net
near_net(tb, x, threshold) == Abs(x - tb.net_x) < threshold

\* an event dict of the output: the tracker's keys plus the rallyLength key
OutEvent(e, type, rallyLength) ==
    [type |-> type, label |-> e.label, is_scoring |-> e.is_scoring,
     scoring_side |-> e.scoring_side, rally_length |-> e.rally_length,
     duration_frames |-> e.duration_frames, rallyLength |-> rallyLength]

\* output_type without the upper-casing
output_type_as_is(e) == IF e.is_scoring THEN "SCORE" ELSE e.type

\* analyze_video: `event.get("type", "bounce").upper()`, "SCORE" if is_scoring
output_type(e) == IF e.is_scoring THEN "SCORE" ELSE Upper(e.type)

\* EnhancedEventDetector._detect_bounce
detect_bounce(len, bounce_pattern) == len >= BounceWindow /\ bounce_pattern

\* EnhancedEventDetector._detect_net_hit
detect_net_hit(len, tb, x, y, net_pattern) ==
    /\ len >= MinHistory
    /\ near_net(tb, x, NetThreshold)
    /\ ~(Abs(2 * y - (tb.y_min + tb.y_max)) > 2 * NetBandPx)
    /\ net_pattern

\* a dict returned by _detect_special_shot, as the output carries it
SpecialEvent(type, label, rallyLength, importance) ==
    [type |-> type, label |-> label, is_scoring |-> FALSE, scoring_side |-> Absent,
     rally_length |-> Absent, duration_frames |-> Absent, rallyLength |-> rallyLength,
     importance |-> importance]

\* _detect_special_shot with the long-rally rule tried before the fast-shot rule
detect_special_shot_rally_first(speed_kmh, shot_type, shot_count) ==
    IF speed_kmh = Absent
    THEN <<>>
    ELSE IF speed_kmh > SmashSpeed /\ shot_type = "smash"
    THEN <<SpecialEvent("FASTEST_SHOT", "Powerful Smash", Absent, SmashImportance)>>
    ELSE IF shot_count >= ExtendedRallyShots
    THEN <<SpecialEvent("RALLY_HIGHLIGHT", "Extended Rally", shot_count, RallyImportance)>>
    ELSE IF speed_kmh > FastSpeed
    THEN <<SpecialEvent("FASTEST_SHOT", "Fast Shot", Absent, FastImportance)>>
    ELSE <<>>

\* EnhancedEventDetector._detect_special_shot; speed_kmh and shot_type are what
\* current_speed_kmh() and classify_shot_type() returned, Absent for None
detect_special_shot(speed_kmh, shot_type, shot_count) ==
    IF speed_kmh = Absent
    THEN <<>>
    ELSE IF speed_kmh > SmashSpeed /\ shot_type = "smash"
    THEN <<SpecialEvent("FASTEST_SHOT", "Powerful Smash", Absent, SmashImportance)>>
    ELSE IF speed_kmh > FastSpeed
    THEN <<SpecialEvent("FASTEST_SHOT", "Fast Shot", Absent, FastImportance)>>
    ELSE IF shot_count >= ExtendedRallyShots
    THEN <<SpecialEvent("RALLY_HIGHLIGHT", "Extended Rally", shot_count, RallyImportance)>>
    ELSE <<>>

\* no tracker call was made
NoCall == Call("none", FALSE, UNKNOWN, FALSE, NoEvent)

\* a table as wide and as high as a 1280 x 720 frame
FrameTable == [x_min |-> 0, y_min |-> 0, x_max |-> 1280, y_max |-> 720, net_x |-> 640]

\* add_position that takes the whole frame for the table when the session has none
add_position_frame_is_table(self, len, frame, x, y, tb, bounce_pattern, net_pattern, speed_kmh, shot_type) ==
    LET len1 == Min(len + 1, HistoryMaxLen)
    IN  IF len1 < MinHistory
        THEN [self |-> self, history_len |-> len1, events |-> <<>>, ret |-> NoCall,
              bounced |-> FALSE, netted |-> FALSE]
        ELSE LET t == IF tb = NoTable THEN FrameTable ELSE tb
                 bounced == detect_bounce(len1, bounce_pattern)
                 b == IF bounced
                      THEN process_bounce(self, frame, x, y, t)
                      ELSE [self |-> self, accepted |-> FALSE, event |-> NoEvent]
                 ev1 == IF b.event # NoEvent
                        THEN <<OutEvent(b.event, output_type(b.event), Absent)>>
                        ELSE <<>>
                 ret1 == IF bounced
                         THEN Call("process_bounce", contains(t, x, y, Margin),
                                   get_side(t, x), b.accepted, b.event)
                         ELSE NoCall
                 netted == /\ near_net(t, x, NetThreshold)
                           /\ detect_net_hit(len1, t, x, y, net_pattern)
                 n == IF netted
                      THEN process_net_hit(b.self)
                      ELSE [self |-> b.self, event |-> NoEvent]
                 ev2 == IF n.event # NoEvent
                        THEN <<OutEvent(n.event, output_type(n.event), Absent)>>
                        ELSE <<>>
                 ret2 == IF netted
                         THEN Call("process_net_hit", FALSE, UNKNOWN, TRUE, n.event)
                         ELSE ret1
                 ev3 == detect_special_shot(speed_kmh, shot_type,
                                            n.self.rally_shot_count)
             IN  [self |-> n.self, history_len |-> len1,
                  events |-> ev1 \o ev2 \o ev3, ret |-> ret2,
                  bounced |-> bounced, netted |-> netted]

\* EnhancedEventDetector.add_position, followed by the loop's renaming of the
\* event types; len is the history length before the call, tb is NoTable when
\* self.table_bounds is None
add_position(self, len, frame, x, y, tb, bounce_pattern, net_pattern, speed_kmh, shot_type) ==
    LET len1 == Min(len + 1, HistoryMaxLen)
    IN  IF len1 < MinHistory
        THEN [self |-> self, history_len |-> len1, events |-> <<>>, ret |-> NoCall,
              bounced |-> FALSE, netted |-> FALSE]
        ELSE LET bounced == detect_bounce(len1, bounce_pattern) /\ tb # NoTable
                 b == IF bounced
                      THEN process_bounce(self, frame, x, y, tb)
                      ELSE [self |-> self, accepted |-> FALSE, event |-> NoEvent]
                 ev1 == IF b.event # NoEvent
                        THEN <<OutEvent(b.event, output_type(b.event), Absent)>>
                        ELSE <<>>
                 ret1 == IF bounced
                         THEN Call("process_bounce", contains(tb, x, y, Margin),
                                   get_side(tb, x), b.accepted, b.event)
                         ELSE NoCall
                 netted == /\ tb # NoTable
                           /\ near_net(tb, x, NetThreshold)
                           /\ detect_net_hit(len1, tb, x, y, net_pattern)
                 n == IF netted
                      THEN process_net_hit(b.self)
                      ELSE [self |-> b.self, event |-> NoEvent]
                 ev2 == IF n.event # NoEvent
                        THEN <<OutEvent(n.event, output_type(n.event), Absent)>>
                        ELSE <<>>
                 ret2 == IF netted
                         THEN Call("process_net_hit", FALSE, UNKNOWN, TRUE, n.event)
                         ELSE ret1
                 ev3 == detect_special_shot(speed_kmh, shot_type,
                                            n.self.rally_shot_count)
             IN  [self |-> n.self, history_len |-> len1,
                  events |-> ev1 \o ev2 \o ev3, ret |-> ret2,
                  bounced |-> bounced, netted |-> netted]

\* the loop's test with the frame of the threshold itself counted as a timeout
timeout_due_at_threshold(n) == n >= NoBallThreshold

\* the loop's test one frame late
timeout_due_late(n) == n > NoBallThreshold + 1

\* analyze_video: `if no_ball_frames > 30`
timeout_due(n) == n > NoBallThreshold

\* `mark` for a tracker object and an output
SnapshotOf(self, evs, rallies) ==
    [phase |-> self.phase, last_bounce_side |-> self.last_bounce_side,
     score |-> self.score, awards |-> self.awards, n_events |-> Len(evs),
     total_rallies |-> rallies]

\* analyze_video, a frame with a detection: `if primary_ball:`
DetectionFrame ==
    /\ frame_idx < MaxLoopFrame
    /\ frame_idx < MaxBallFrame
    /\ ball_detections < MaxDetections
    /\ \E x \in XS, y \in YS, bounce_pattern \in BOOLEAN, net_pattern \in BOOLEAN,
          speed \in SpeedCases :
          LET r == add_position(Self, history_len, frame_idx, x, y, table_bounds,
                                bounce_pattern, net_pattern, speed[1], speed[2])
          IN  /\ Store(r.self)
              /\ history_len' = r.history_len
              /\ events' = events \o r.events
              /\ ball_detections' = ball_detections + 1
              /\ no_ball_frames' = 0
              /\ ret' = r.ret
              /\ mark' = SnapshotOf(r.self, events \o r.events, total_rallies)
    /\ frame_idx' = frame_idx + 1
    /\ last_reset_frame' = frame_idx
    /\ quiet' = 0
    /\ scenario_step' = -1
    /\ UNCHANGED <<fps, table_bounds, total_rallies>>
    /\ UNCHANGED config_vars
    /\ UNCHANGED detector_vars
    /\ UNCHANGED report_vars

\* analyze_video, a frame without a detection: the `else:` branch
NoDetectionFrame ==
    /\ frame_idx < MaxLoopFrame
    /\ LET n == no_ball_frames + 1
       IN  IF timeout_due(n)
           THEN LET r == finish_rally(Self, frame_idx)
                IN  /\ Store(r.self)
                    /\ events' = IF r.event # NoEvent
                                 THEN Append(events, OutEvent(r.event, "SCORE", Absent))
                                 ELSE events
                    /\ total_rallies' = IF r.event # NoEvent
                                        THEN total_rallies + 1
                                        ELSE total_rallies
                    /\ no_ball_frames' = 0
                    /\ ret' = Call("finish_rally", FALSE, UNKNOWN, TRUE, r.event)
                    /\ last_reset_frame' = frame_idx
           ELSE /\ no_ball_frames' = n
                /\ ret' = NoCall
                /\ UNCHANGED <<phase, server, score, rally_shot_count, rally_start_frame,
                               last_bounce_side, last_bounce_frame, awards, events,
                               total_rallies, last_reset_frame>>
    /\ frame_idx' = frame_idx + 1
    /\ quiet' = quiet + 1
    /\ scenario_step' = -1
    /\ UNCHANGED <<fps, table_bounds, ball_detections, history_len, mark>>
    /\ UNCHANGED config_vars
    /\ UNCHANGED detector_vars
    /\ UNCHANGED report_vars

LoopNext == DetectionFrame \/ NoDetectionFrame

\* the frame loop of analyze_video over a video of MaxLoopFrame frames
SpecLoop == Init /\ [][LoopNext]_vars

LoopTypeOK ==
    /\ no_ball_frames \in 0 .. NoBallThreshold
    /\ total_rallies \in Nat
    /\ ball_detections \in 0 .. MaxDetections
    /\ history_len \in 0 .. HistoryMaxLen
    /\ frame_idx \in 0 .. MaxLoopFrame

\* ----------------------------------------------------------- configuration
\* corner coordinates offered to the manual calibration, and net lines offered
\* with a manual rectangle
CornerXS == {0, 1000}
CornerYS == {0, 500}
ManualNetXS == {500, 1200}
CornerPoints == CornerXS \X CornerYS

\* the smallest / largest of a non-empty set of numbers: min(...) / max(...)
SetMin(S) == CHOOSE m \in S : \A n \in S : m <= n
SetMax(S) == CHOOSE m \in S : \A n \in S : m >= n

\* calibrate_from_points that trusts the corners' names
calibrate_from_points_by_name(top_left, top_right, bottom_left, bottom_right) ==
    [x_min |-> top_left[1], y_min |-> top_left[2], x_max |-> bottom_right[1],
     y_max |-> bottom_right[2], net_x |-> (top_left[1] + bottom_right[1]) \div 2]

\* TableDetector.calibrate_from_points; the corner coordinates offered are even,
\* so the halving is exact
calibrate_from_points(top_left, top_right, bottom_left, bottom_right) ==
    LET x_coords == {top_left[1], top_right[1], bottom_left[1], bottom_right[1]}
        y_coords == {top_left[2], top_right[2], bottom_left[2], bottom_right[2]}
        x_min == SetMin(x_coords)
        x_max == SetMax(x_coords)
    IN  [x_min |-> x_min, y_min |-> SetMin(y_coords), x_max |-> x_max,
         y_max |-> SetMax(y_coords), net_x |-> (x_min + x_max) \div 2]

\* TableCalibrationTool.calibrate on the four clicked points, from
\* `# Calculate bounds` on
calibrate(points) ==
    LET xs == {points[i][1] : i \in DOMAIN points}
        ys == {points[i][2] : i \in DOMAIN points}
    IN  [x_min |-> SetMin(xs), y_min |-> SetMin(ys), x_max |-> SetMax(xs),
         y_max |-> SetMax(ys), net_x |-> (SetMin(xs) + SetMax(xs)) \div 2]

\* the manual_table_bounds dicts offered to analyze_video
ManualBounds ==
    [x_min : CornerXS, y_min : CornerYS, x_max : CornerXS, y_max : CornerYS,
     net_x : ManualNetXS]

\* a session that has not set its geometry yet
ConfigInit ==
    /\ Fresh
    /\ table_bounds = NoTable
    /\ corners \in [1 .. 4 -> CornerPoints]
    /\ config_state = "unset"

\* everything but the geometry and the configuration's progress
session_vars ==
    <<fps, frame_idx, phase, server, score, rally_shot_count, rally_start_frame,
      last_bounce_side, last_bounce_frame, awards, ret, scenario_step,
      no_ball_frames, events, total_rallies, ball_detections, history_len,
      last_reset_frame, quiet, mark, history, stream, drops, out, report_vars>>

\* the geometry comes from TableDetector.calibrate_from_points
CalibrateFromPoints ==
    /\ config_state = "unset"
    /\ table_bounds' = calibrate_from_points(corners[1], corners[2], corners[3], corners[4])
    /\ config_state' = "calibrated"
    /\ UNCHANGED <<corners, session_vars>>

\* analyze_video: `table_bounds = TableBounds(**manual_table_bounds)`
UseManualBounds ==
    /\ config_state = "unset"
    /\ \E d \in ManualBounds : table_bounds' = d
    /\ config_state' = "manual"
    /\ UNCHANGED <<corners, session_vars>>

\* the dict printed by TableCalibrationTool.calibrate is handed to analyze_video
\* as manual_table_bounds
CalibrationTool ==
    /\ config_state = "unset"
    /\ table_bounds' = calibrate(corners)
    /\ config_state' = "tool"
    /\ UNCHANGED <<corners, session_vars>>

\* analyze_video: `detector = EnhancedEventDetector(fps, ..., table_bounds)`
CreateDetector ==
    /\ config_state \in {"calibrated", "manual", "tool"}
    /\ config_state' = "running"
    /\ UNCHANGED <<table_bounds, corners, session_vars>>

ConfigNext == CalibrateFromPoints \/ UseManualBounds \/ CalibrationTool \/ CreateDetector

\* the configuration of a session, up to the construction of the detector
SpecConfig == ConfigInit /\ [][ConfigNext]_vars

\* ------------------------------------------------- applications of functions
\* x / y coordinates, margins and frame widths the functions are applied to:
\* the values at, just inside and just outside the net lines, the expanded
\* rectangles and the middle of the frame
ProbeXS == {-21, -20, 79, 80, 449, 450, 451, 499, 500, 501, 640, 641, 820, 821, 1020, 1021}
ProbeYS == {-21, -20, 179, 180, 250, 520, 521, 620, 621}
ProbeMargins == {0, 20}
FrameWidths == {1280, 1281}

\* _infer_player whose fallback counts the middle of the frame to player 1
infer_player_middle_is_1(tb, frame_width, x) ==
    IF tb # NoTable
    THEN IF get_side(tb, x) = LEFT THEN 1 ELSE 2
    ELSE IF 2 * x <= frame_width THEN 1 ELSE 2

\* EnhancedEventDetector._infer_player; `x < self.frame_width / 2` in integers
infer_player(tb, frame_width, x) ==
    IF tb # NoTable
    THEN IF get_side(tb, x) = LEFT THEN 1 ELSE 2
    ELSE IF 2 * x < frame_width THEN 1 ELSE 2

\* a session with or without a table, nothing called yet
ProbeInit ==
    /\ Fresh
    /\ table_bounds \in Geometries \cup {NoTable}
    /\ corners = <<>>
    /\ config_state = "running"

\* everything but the tracker's fields, `ret` and `out`
probe_frame == <<fps, table_bounds, scenario_step, loop_vars, config_vars,
                 history, stream, drops, report_vars>>

tracker_vars == <<frame_idx, phase, server, score, rally_shot_count, rally_start_frame,
                  last_bounce_side, last_bounce_frame, awards, ret>>

\* table_bounds.get_side(x)
GetSide ==
    /\ table_bounds # NoTable
    /\ \E x \in ProbeXS :
          out' = [op |-> "get_side", x |-> x, result |-> get_side(table_bounds, x)]
    /\ UNCHANGED <<probe_frame, tracker_vars>>

\* table_bounds.contains(x, y, margin)
Contains ==
    /\ table_bounds # NoTable
    /\ \E x \in ProbeXS, y \in ProbeYS, margin \in ProbeMargins :
          out' = [op |-> "contains", x |-> x, y |-> y, margin |-> margin,
                  result |-> contains(table_bounds, x, y, margin)]
    /\ UNCHANGED <<probe_frame, tracker_vars>>

\* detector._infer_player(x)
InferPlayer ==
    /\ \E x \in ProbeXS, frame_width \in FrameWidths :
          out' = [op |-> "_infer_player", x |-> x, frame_width |-> frame_width,
                  result |-> infer_player(table_bounds, frame_width, x)]
    /\ UNCHANGED <<probe_frame, tracker_vars>>

\* the first process_bounce call of a session, with a ball position (x, y)
FirstBounce ==
    /\ table_bounds # NoTable
    /\ ret.op = "init"
    /\ \E x \in ProbeXS, y \in ProbeYS :
          LET r == process_bounce(Self, frame_idx, x, y, table_bounds)
          IN  /\ Store(r.self)
              /\ ret' = Call("process_bounce", contains(table_bounds, x, y, Margin),
                             get_side(table_bounds, x), r.accepted, r.event)
              /\ out' = [op |-> "process_bounce", x |-> x, y |-> y, result |-> r.event]
    /\ UNCHANGED <<frame_idx, probe_frame>>

ProbeNext == GetSide \/ Contains \/ InferPlayer \/ FirstBounce

\* the geometry functions and the player inference applied to single points
SpecProbe == ProbeInit /\ [][ProbeNext]_vars

\* ------------------------------------------------ detector on pixel positions
\* observations a detector run of this part may take
MaxObservations == 6

\* frame rates on both sides of the `self.fps < 60` test of _detect_bounce
DetectorFpsSet == {30, 60}

\* ball positions <<x, y>> offered to the detector: a column of heights left of
\* the net, and a point near the net inside and outside the vertical band
DPositions == {<<200, 240>>, <<200, 246>>, <<200, 250>>, <<200, 256>>,
               <<490, 250>>, <<490, 400>>}

\* a speed below both thresholds of _detect_special_shot
SlowSpeed == 50

\* a BallPosition
BallPosition(x, y, frame) == [x |-> x, y |-> y, frame |-> frame]

\* deque.append that refuses the new position once the deque is full
append_keep_oldest(h, pos) ==
    IF Len(h) >= HistoryMaxLen THEN h ELSE Append(h, pos)

\* self.history.append(pos) on a deque(maxlen=40)
append(h, pos) ==
    IF Len(h) >= HistoryMaxLen THEN Append(Tail(h), pos) ELSE Append(h, pos)

\* _detect_bounce: `3.0 if self.fps < 60 else 5.0`
velocity_threshold(f) == IF f < 60 THEN 3 ELSE 5

\* the i-th of the five vertical steps over the last 6 positions of h
v_y(h, i) == h[Len(h) - 5 + i].y - h[Len(h) - 6 + i].y

\* bounce_pattern that also wants the last step to be upward
bounce_pattern_up2(h, f) ==
    /\ Len(h) >= BounceWindow
    /\ v_y(h, 1) > velocity_threshold(f)
    /\ 2 * v_y(h, 2) > velocity_threshold(f)
    /\ 10 * v_y(h, 3) > -3 * velocity_threshold(f)
    /\ 2 * v_y(h, 4) < -velocity_threshold(f)
    /\ 2 * v_y(h, 5) < -velocity_threshold(f)

\* _detect_bounce, the test on down1, down2, mid, up1 (up2 is not read); the
\* factors 0.5 and 0.3 are cleared by multiplying through, pixels being integers
bounce_pattern(h, f) ==
    /\ Len(h) >= BounceWindow
    /\ v_y(h, 1) > velocity_threshold(f)
    /\ 2 * v_y(h, 2) > velocity_threshold(f)
    /\ 10 * v_y(h, 3) > -3 * velocity_threshold(f)
    /\ 2 * v_y(h, 4) < -velocity_threshold(f)

\* net_pattern that fires on any horizontal movement
net_pattern_any_move(h) ==
    /\ Len(h) >= 3
    /\ h[Len(h) - 1].x # h[Len(h)].x

\* _detect_net_hit, the test on vx_before and vx_after
net_pattern(h) ==
    /\ Len(h) >= 3
    /\ LET vx_before == h[Len(h) - 2].x - h[Len(h) - 1].x
           vx_after == h[Len(h) - 1].x - h[Len(h)].x
       IN  \/ Abs(vx_before) > 5 /\ 10 * Abs(vx_after) < 3 * Abs(vx_before)
           \/ vx_before * vx_after < 0

\* a detector constructed with the table of the specification's scenarios
DetectorInit ==
    /\ FreshFields
    /\ stream = "none"
    /\ fps \in DetectorFpsSet
    /\ table_bounds = SpecTable
    /\ corners = <<>>
    /\ config_state = "running"

\* what `out` holds about an add_position call: the position, the speed and shot
\* type of the frame, what came back and which of the two tracker calls were made
Observed(pos, speed_kmh, shot_type, r) ==
    [op |-> "add_position", pos |-> pos, speed_kmh |-> speed_kmh,
     shot_type |-> shot_type, events |-> r.events, bounced |-> r.bounced,
     netted |-> r.netted]

\* detector.add_position(pos) for the ball position of the next frame
AddPosition ==
    /\ Len(history) < MaxObservations
    /\ \E p \in DPositions :
          LET pos == BallPosition(p[1], p[2], frame_idx)
              h1 == append(history, pos)
              r == add_position(Self, Len(history), pos.frame, pos.x, pos.y,
                                table_bounds, bounce_pattern(h1, fps), net_pattern(h1),
                                SlowSpeed, "rally")
          IN  /\ history' = h1
              /\ Store(r.self)
              /\ ret' = r.ret
              /\ history_len' = r.history_len
              /\ out' = Observed(pos, SlowSpeed, "rally", r)
    /\ frame_idx' = frame_idx + 1
    /\ UNCHANGED <<fps, table_bounds, scenario_step, no_ball_frames, events,
                   total_rallies, ball_detections, last_reset_frame, quiet, mark,
                   config_vars, report_vars, stream, drops>>

\* detector.finish_rally(frame) after the latest observation; with
\* rally_shot_count = 0 the call returns None and changes nothing
DetectorFinishRally ==
    /\ out.op = "add_position"
    /\ rally_shot_count > 0
    /\ LET r == finish_rally(Self, frame_idx)
       IN  /\ Store(r.self)
           /\ ret' = Call("finish_rally", FALSE, UNKNOWN, TRUE, r.event)
           /\ out' = [op |-> "finish_rally", event |-> r.event]
    /\ UNCHANGED <<fps, table_bounds, frame_idx, scenario_step, loop_vars, config_vars,
                   report_vars, history, stream, drops>>

DetectorNext == AddPosition \/ DetectorFinishRally

\* an EnhancedEventDetector fed the first positions of a video
SpecDetector == DetectorInit /\ [][DetectorNext]_vars

\* ------------------------------------------------- detector on whole videos
\* number of frames of a scripted video
MaxStreamFrame == 53
\* frames of a scripted video on which the ball is there but goes undetected
MaxDrops == 1

\* the frame rate of the scripted videos
StreamFps == 30

\* the scripted videos: "rally" shows a ball that bounces every fifth frame, on
\* alternating sides from the server's side on; "stall" shows the same ball up to
\* frame 12, no ball for 35 frames, and the ball again from frame 48 on
Streams == {"rally", "stall"}

\* speed (km/h) and shot type pairs around the two thresholds of
\* _detect_special_shot; "drive" stands for every shot type but "smash"
StreamSpeeds == {<<55, "drive">>, <<56, "drive">>, <<70, "smash">>, <<71, "smash">>,
                 <<71, "drive">>}

\* the height of the scripted ball on frame f: down by 6 and 4, level, up by 6 and 4
StreamY(f) ==
    CASE f % 5 = 0 -> 240
      [] f % 5 = 1 -> 246
      [] f % 5 = 4 -> 244
      [] OTHER -> 250

\* the scripted ball is left of the net up to its first bounce (frame 5), right
\* of it up to its second (frame 10), and so on
StreamX(f) == IF ((f + 4) \div 5) % 2 = 1 THEN 200 ELSE 800

\* whether video s shows the ball on frame f
StreamHasBall(s, f) == s = "rally" \/ f <= 12 \/ f >= 48

\* a detector constructed for one of the scripted videos
StreamInit ==
    /\ FreshFields
    /\ fps = StreamFps
    /\ table_bounds = SpecTable
    /\ corners = <<>>
    /\ config_state = "running"
    /\ stream \in Streams

\* a frame on which the ball is detected: detector.add_position(primary_ball)
StreamObservation ==
    /\ frame_idx < MaxStreamFrame
    /\ StreamHasBall(stream, frame_idx)
    /\ \E speed \in StreamSpeeds :
          LET speed_kmh == speed[1]
              shot_type == speed[2]
              pos == BallPosition(StreamX(frame_idx), StreamY(frame_idx), frame_idx)
              h1 == append(history, pos)
              r == add_position(Self, Len(history), pos.frame, pos.x, pos.y,
                                table_bounds, bounce_pattern(h1, fps), net_pattern(h1),
                                speed_kmh, shot_type)
          IN  /\ history' = h1
              /\ Store(r.self)
              /\ ret' = r.ret
              /\ history_len' = r.history_len
              /\ out' = Observed(pos, speed_kmh, shot_type, r)
    /\ ball_detections' = ball_detections + 1
    /\ no_ball_frames' = 0
    /\ frame_idx' = frame_idx + 1
    /\ UNCHANGED <<fps, table_bounds, scenario_step, events, total_rallies,
                   last_reset_frame, quiet, mark, config_vars, report_vars, stream, drops>>

\* a frame on which no ball is detected, because the video shows none or because
\* the detection missed it: the loop counts it and calls detector.finish_rally
\* once the count exceeds 30
StreamNoBall ==
    /\ frame_idx < MaxStreamFrame
    /\ ~StreamHasBall(stream, frame_idx) \/ drops < MaxDrops
    /\ drops' = IF StreamHasBall(stream, frame_idx) THEN drops + 1 ELSE drops
    /\ LET n == no_ball_frames + 1
       IN  IF timeout_due(n)
           THEN LET r == finish_rally(Self, frame_idx)
                IN  /\ Store(r.self)
                    /\ no_ball_frames' = 0
                    /\ ret' = Call("finish_rally", FALSE, UNKNOWN, TRUE, r.event)
                    /\ out' = [op |-> "finish_rally", event |-> r.event]
           ELSE /\ no_ball_frames' = n
                /\ ret' = NoCall
                /\ out' = NoOut
                /\ UNCHANGED <<phase, server, score, rally_shot_count, rally_start_frame,
                               last_bounce_side, last_bounce_frame, awards>>
    /\ frame_idx' = frame_idx + 1
    /\ UNCHANGED <<fps, table_bounds, scenario_step, events, total_rallies,
                   ball_detections, history_len, last_reset_frame, quiet, mark,
                   config_vars, report_vars, history, stream>>

StreamNext == StreamObservation \/ StreamNoBall

\* an EnhancedEventDetector called frame by frame over a scripted video
SpecStream == StreamInit /\ [][StreamNext]_vars

\* ------------------------------------------------ whole runs of analyze_video
\* the scripted videos of a whole run: those of Streams and "net", the "rally"
\* video with the ball over the net line from frame 11 to frame 15, so that its
\* third bounce lands on the net line
RunStreams == Streams \cup {"net"}

\* the x coordinate of the ball of video s on frame f
RunX(s, f) == IF s = "net" /\ f \in 11 .. 15 THEN SpecTable.net_x ELSE StreamX(f)

\* whether video s shows the ball on frame f
RunHasBall(s, f) == s = "net" \/ StreamHasBall(s, f)

\* the speed (km/h) and shot type the detector sees on frame f of a scripted
\* video: mostly slow, now and then a fast drive or a smash
RunSpeed(f) ==
    CASE f % 9 = 4 -> <<60, "drive">>
      [] f % 9 = 8 -> <<80, "smash">>
      [] OTHER -> <<SlowSpeed, "rally">>

Max(a, b) == IF a > b THEN a ELSE b

RECURSIVE SumSeq(_)
\* sum(...) of a list of numbers
SumSeq(q) == IF q = <<>> THEN 0 ELSE Head(q) + SumSeq(Tail(q))

\* round(total / n, 1) in tenths; a tie goes to the even tenth, as Python's round
\* does for a quotient that is an exact binary fraction (every tie with n < 20 is
\* a multiple of 1/4)
RoundTenths(total, n) ==
    LET q == (10 * total) \div n
        rest == (10 * total) % n
    IN  IF 2 * rest > n \/ (2 * rest = n /\ q % 2 = 1) THEN q + 1 ELSE q

\* `e.get("rallyLength")` is truthy: the key is there and its value is not 0
has_rallyLength(e) == e.rallyLength # Absent /\ e.rallyLength # 0

\* analyze_video, "avgRallyLength" in tenths: the events with a truthy
\* "rallyLength" are averaged; 0.0 stays when there is none
avg_rally_length(evs) ==
    LET bounce_events == SelectSeq(evs, has_rallyLength)
        rally_lengths == [i \in DOMAIN bounce_events |-> bounce_events[i].rallyLength]
    IN  IF bounce_events # <<>>
        THEN RoundTenths(SumSeq(rally_lengths), Len(rally_lengths))
        ELSE 0

\* the closing rewrite of "totalRallies" done whatever the loop counted
total_rallies_always_estimated(counted, evs) == Max(1, Len(evs) \div 3)

\* analyze_video, the closing rewrite of "totalRallies": the loop's count, or
\* `max(1, len(events) // 3)` when the loop counted none
total_rallies_statistic(counted, evs) ==
    IF counted = 0 THEN Max(1, Len(evs) \div 3) ELSE counted

\* output_results["statistics"] and output_results["tableDetected"] as written at
\* the end of the stream; avgRallyLength is in tenths
Statistics(self, evs, counted, detections, tb) ==
    [written |-> TRUE,
     ballDetections |-> detections,
     player1Score |-> self.score[LEFT],
     player2Score |-> self.score[RIGHT],
     totalRallies |-> total_rallies_statistic(counted, evs),
     avgRallyLength |-> avg_rally_length(evs),
     tableDetected |-> tb # NoTable]

\* analyze_video on one of the scripted videos, with or without a table
RunInit ==
    /\ FreshFields
    /\ fps = StreamFps
    /\ table_bounds \in {SpecTable, NoTable}
    /\ corners = <<>>
    /\ config_state = "running"
    /\ stream \in RunStreams

\* the frame loop on a frame with a detection: detector.add_position and the
\* renaming and appending of its events
RunDetection ==
    /\ ~statistics.written
    /\ frame_idx < MaxStreamFrame
    /\ RunHasBall(stream, frame_idx)
    /\ LET pos == BallPosition(RunX(stream, frame_idx), StreamY(frame_idx), frame_idx)
           h1 == append(history, pos)
           speed == RunSpeed(frame_idx)
           r == add_position(Self, Len(history), pos.frame, pos.x, pos.y, table_bounds,
                             bounce_pattern(h1, fps), net_pattern(h1), speed[1],
                             speed[2])
       IN  /\ history' = h1
           /\ Store(r.self)
           /\ ret' = r.ret
           /\ history_len' = r.history_len
           /\ events' = events \o r.events
    /\ ball_detections' = ball_detections + 1
    /\ no_ball_frames' = 0
    /\ frame_idx' = frame_idx + 1
    /\ UNCHANGED <<fps, table_bounds, scenario_step, total_rallies, last_reset_frame,
                   quiet, mark, config_vars, report_vars, stream, drops, out>>

\* the frame loop on a frame without a detection, because the video shows no
\* ball or because the detection missed it
RunNoDetection ==
    /\ ~statistics.written
    /\ frame_idx < MaxStreamFrame
    /\ ~RunHasBall(stream, frame_idx) \/ drops < MaxDrops
    /\ drops' = IF RunHasBall(stream, frame_idx) THEN drops + 1 ELSE drops
    /\ LET n == no_ball_frames + 1
       IN  IF timeout_due(n)
           THEN LET r == finish_rally(Self, frame_idx)
                IN  /\ Store(r.self)
                    /\ events' = IF r.event # NoEvent
                                 THEN Append(events, OutEvent(r.event, "SCORE", Absent))
                                 ELSE events
                    /\ total_rallies' = IF r.event # NoEvent
                                        THEN total_rallies + 1
                                        ELSE total_rallies
                    /\ no_ball_frames' = 0
                    /\ ret' = Call("finish_rally", FALSE, UNKNOWN, TRUE, r.event)
           ELSE /\ no_ball_frames' = n
                /\ ret' = NoCall
                /\ UNCHANGED <<phase, server, score, rally_shot_count, rally_start_frame,
                               last_bounce_side, last_bounce_frame, awards, events,
                               total_rallies>>
    /\ frame_idx' = frame_idx + 1
    /\ UNCHANGED <<fps, table_bounds, scenario_step, ball_detections, history_len,
                   last_reset_frame, quiet, mark, config_vars, report_vars, history,
                   stream, out>>

\* the video ends (`if not ret: break`) and the statistics are written
EndOfStream ==
    /\ ~statistics.written
    /\ frame_idx > 0
    /\ statistics' = Statistics(Self, events, total_rallies, ball_detections,
                                table_bounds)
    /\ UNCHANGED <<fps, table_bounds, tracker_vars, scenario_step, loop_vars,
                   config_vars, history, stream, drops, out, ema_speed_kmh>>

RunNext == RunDetection \/ RunNoDetection \/ EndOfStream

\* analyze_video from the first frame of a scripted video to the written output
SpecRun == RunInit /\ [][RunNext]_vars

\* ------------------------------------------------- speed and shot type
\* Speeds are integers in units of 0.000005 km/h (200000 units to the km/h), which
\* keeps the instantaneous speed of the displacements below exact; the returned
\* value, rounded to one decimal, is in tenths of a km/h.
\* observations a detector run of this part may take
MaxSpeedObservations == 10

\* units of speed in a tenth of a km/h
UnitsPerTenth == 20000

\* the width of the frame the videos of this part have
SpeedFrameWidth == 1280

\* the first position of the ball and the displacements per frame it may take:
\* 5 pixels forward and down or 10 pixels backward and up along one line
SpeedStart == <<200, 100>>
Displacements == {<<3, 4>>, <<-6, -8>>}

RECURSIVE root_from(_, _)
\* the largest r' >= r with r' * r' <= n
root_from(n, r) == IF (r + 1) * (r + 1) > n THEN r ELSE root_from(n, r + 1)

\* `(dx * dx + dy * dy) ** 0.5` for a sum of squares that is a perfect square, its
\* integer part otherwise
dist_pixels(dx, dy) == root_from(dx * dx + dy * dy, 0)

\* `list(self.history)[-n:]`
last_positions(h, n) == IF Len(h) <= n THEN h ELSE SubSeq(h, Len(h) - n + 1, Len(h))

\* 3.6 / pixels_per_meter in units per (pixel * fps / frame): pixels_per_meter is
\* the table width in pixels / 1.525, or 1000.0 without a table
units_per_pixel_rate(tb) ==
    IF tb = NoTable THEN 720 ELSE 1098000 \div (tb.x_max - tb.x_min)

\* the speed current_speed_kmh computes before smoothing, Absent where it
\* returns None
instant_speed(h, f, tb) ==
    IF Len(h) < 3 \/ f <= 0
    THEN Absent
    ELSE LET sample == last_positions(h, BounceWindow)
             first == sample[1]
             last == sample[Len(sample)]
             dt_frames == last.frame - first.frame
         IN  IF dt_frames <= 0
             THEN Absent
             ELSE (dist_pixels(last.x - first.x, last.y - first.y) * f
                   * units_per_pixel_rate(tb)) \div dt_frames

\* n / d rounded to the nearest integer, a tie to the even one
RoundDiv(n, d) ==
    LET q == n \div d
        rest == n % d
    IN  IF 2 * rest > d \/ (2 * rest = d /\ q % 2 = 1) THEN q + 1 ELSE q

\* the smoothing step with the weights of the new value and of the prior EMA
\* exchanged
blend_weights_exchanged(speed, ema) == RoundDiv(65 * speed + 35 * ema, 100)

\* `self._ema_alpha * speed_kmh + (1 - self._ema_alpha) * self._ema_speed_kmh`
\* with _ema_alpha = 0.35
blend(speed, ema) == RoundDiv(35 * speed + 65 * ema, 100)

\* EnhancedEventDetector.current_speed_kmh: the new _ema_speed_kmh and the value
\* returned, in tenths of a km/h (Absent for None)
current_speed_kmh(h, f, tb, ema) ==
    LET speed == instant_speed(h, f, tb)
    IN  IF speed = Absent
        THEN [ema |-> ema, value |-> Absent, instant |-> Absent, before |-> ema]
        ELSE LET ema1 == IF ema = Absent THEN speed ELSE blend(speed, ema)
             IN  [ema |-> ema1, value |-> RoundDiv(ema1, UnitsPerTenth),
                  instant |-> speed, before |-> ema]

\* EnhancedEventDetector.classify_shot_type, Absent for None; the comparisons of
\* speed and vertical_ratio are made on the squares, pixels being integers
classify_shot_type(h, f, frame_width) ==
    IF Len(h) < MinHistory \/ f <= 0
    THEN Absent
    ELSE LET p0 == h[Len(h)]
             p1 == h[Len(h) - 1]
             vx == p0.x - p1.x
             vy == p0.y - p1.y
             speed2 == vx * vx + vy * vy
         IN  CASE 16 * speed2 > frame_width * frame_width /\ vy > 0 -> "smash"
               [] OTHER ->
             CASE vy < -5 /\ 400 * vy * vy > 49 * speed2 -> "topspin"
               [] OTHER ->
             CASE vy > 6 /\ 25 * vy * vy > 4 * speed2
                         /\ 2500 * speed2 < 81 * frame_width * frame_width -> "lob"
               [] OTHER ->
             CASE 2500 * speed2 > 121 * frame_width * frame_width -> "drive"
               [] OTHER -> "rally"

\* a tenth-of-km/h value as the whole km/h number that compares alike with the
\* whole thresholds of _detect_special_shot
CeilKmh(tenths) == IF tenths = Absent THEN Absent ELSE (tenths + 9) \div 10

\* whether the positions current_speed_kmh samples lie on consecutive frames
\* with one and the same displacement per frame
constant_displacement(h) ==
    LET sample == last_positions(h, BounceWindow)
    IN  \A i \in 2 .. Len(sample) :
           /\ sample[i].frame = sample[i - 1].frame + 1
           /\ sample[i].x - sample[i - 1].x = sample[2].x - sample[1].x
           /\ sample[i].y - sample[i - 1].y = sample[2].y - sample[1].y

\* a detector on the table of the scenarios, fed a ball that moves along a line
SpeedInit ==
    /\ FreshFields
    /\ stream = "none"
    /\ fps = StreamFps
    /\ table_bounds = SpecTable
    /\ corners = <<>>
    /\ config_state = "running"

\* a frame with a detection: detector.add_position(pos), whose _detect_bounce
\* (when it sees its pattern) and _detect_special_shot call current_speed_kmh,
\* and then the loop's own `est_speed = detector.current_speed_kmh()`
SpeedObservation ==
    /\ Len(history) < MaxSpeedObservations
    /\ \E d \in Displacements :
          LET pos == IF history = <<>>
                     THEN BallPosition(SpeedStart[1], SpeedStart[2], frame_idx)
                     ELSE BallPosition(history[Len(history)].x + d[1],
                                       history[Len(history)].y + d[2], frame_idx)
              h1 == append(history, pos)
              bounce == bounce_pattern(h1, fps)
              c1 == current_speed_kmh(h1, fps, table_bounds, ema_speed_kmh)
              e1 == IF bounce THEN c1.ema ELSE ema_speed_kmh
              c2 == current_speed_kmh(h1, fps, table_bounds, e1)
              e2 == IF Len(h1) >= MinHistory THEN c2.ema ELSE e1
              r == add_position(Self, Len(history), pos.frame, pos.x, pos.y,
                                table_bounds, bounce, net_pattern(h1),
                                CeilKmh(c2.value),
                                classify_shot_type(h1, fps, SpeedFrameWidth))
              c3 == current_speed_kmh(h1, fps, table_bounds, e2)
          IN  /\ history' = h1
              /\ Store(r.self)
              /\ ret' = r.ret
              /\ history_len' = r.history_len
              /\ ema_speed_kmh' = c3.ema
              /\ out' = [op |-> "current_speed_kmh",
                         constant |-> constant_displacement(h1),
                         calls |-> (IF bounce THEN <<c1>> ELSE <<>>)
                                   \o (IF Len(h1) >= MinHistory THEN <<c2>> ELSE <<>>)
                                   \o <<c3>>]
    /\ ball_detections' = ball_detections + 1
    /\ no_ball_frames' = 0
    /\ frame_idx' = frame_idx + 1
    /\ UNCHANGED <<fps, table_bounds, scenario_step, events, total_rallies,
                   last_reset_frame, quiet, mark, config_vars, statistics, stream,
                   drops>>

\* a frame on which the ball is missed: the loop counts it, calls
\* detector.finish_rally once the count exceeds 30, and asks for no speed
SpeedNoBall ==
    /\ Len(history) < MaxSpeedObservations
    /\ drops < MaxDrops
    /\ drops' = drops + 1
    /\ LET n == no_ball_frames + 1
       IN  IF timeout_due(n)
           THEN LET r == finish_rally(Self, frame_idx)
                IN  /\ Store(r.self)
                    /\ no_ball_frames' = 0
                    /\ ret' = Call("finish_rally", FALSE, UNKNOWN, TRUE, r.event)
           ELSE /\ no_ball_frames' = n
                /\ ret' = NoCall
                /\ UNCHANGED <<phase, server, score, rally_shot_count, rally_start_frame,
                               last_bounce_side, last_bounce_frame, awards>>
    /\ frame_idx' = frame_idx + 1
    /\ UNCHANGED <<fps, table_bounds, scenario_step, events, total_rallies,
                   ball_detections, history_len, last_reset_frame, quiet, mark,
                   config_vars, report_vars, history, stream, out>>

SpeedNext == SpeedObservation \/ SpeedNoBall

\* the speed smoothing of an EnhancedEventDetector over the first frames of a
\* video
SpecSpeed == SpeedInit /\ [][SpeedNext]_vars

\* ------------------------------------------------------------------ claims
\* the step just taken was a call of process_bounce that passed the debounce check
AcceptedBounce == ret'.op = "process_bounce" /\ ret'.accepted

\* the step awarded exactly one point, to `side`
OnePointTo(side) ==
    /\ awards' = awards + 1
    /\ score' = [score EXCEPT ![side] = @ + 1]

SidesOnly == {LEFT, RIGHT}

\* C1: the two scores add up to the number of _award_point invocations made so far.
C1_ScoreSumIsAwards == score[LEFT] + score[RIGHT] = awards

\* C2: the server changes in a step iff the step raised the total points to an
\* even value, and the server is LEFT iff floor(total / 2) is even.
C2_ServerFlipsOnEvenTotal ==
    [][ /\ (server' # server) <=>
              (/\ total_points(score') > total_points(score)
               /\ total_points(score') % 2 = 0)
        /\ (server' = LEFT) <=> ((total_points(score') \div 2) % 2 = 0) ]_vars

\* C3: an accepted on-table bounce on the server's side in WAITING_FOR_SERVE gives
\* a non-scoring SERVE event, SERVE_IN_PROGRESS and rally_shot_count 1; a following
\* accepted on-table bounce on the opponent's side gives a non-scoring BOUNCE event,
\* RALLY_IN_PROGRESS and rally length 2; neither changes score or server.
C3_LegalServePath ==
    [][ /\ (/\ phase = WAITING_FOR_SERVE
            /\ AcceptedBounce
            /\ ret'.on_table
            /\ ret'.side = server)
           => /\ Upper(ret'.event.type) = "SERVE"
              /\ ~ret'.event.is_scoring
              /\ phase' = SERVE_IN_PROGRESS
              /\ rally_shot_count' = 1
              /\ score' = score /\ server' = server /\ awards' = awards
        /\ (/\ phase = SERVE_IN_PROGRESS
            /\ AcceptedBounce
            /\ ret'.on_table
            /\ ret'.side \in SidesOnly /\ ret'.side # server)
           => /\ Upper(ret'.event.type) = "BOUNCE"
              /\ ~ret'.event.is_scoring
              /\ phase' = RALLY_IN_PROGRESS
              /\ rally_shot_count' = 2
              /\ score' = score /\ server' = server /\ awards' = awards ]_vars

\* C4: in SERVE_IN_PROGRESS an accepted bounce that is not an on-table bounce on
\* the opponent's side gives one MISS event, "Serve Out" off the table and
\* "Service Error" otherwise, one point to the side opposite the one that served,
\* and WAITING_FOR_SERVE.
C4_ServeDeviationIsMiss ==
    [][ (/\ phase = SERVE_IN_PROGRESS
         /\ AcceptedBounce
         /\ ~(ret'.on_table /\ ret'.side \in SidesOnly /\ ret'.side # server))
        => /\ last_bounce_side = server
           /\ ret'.event.type = "MISS"
           /\ ret'.event.label = (IF ret'.on_table THEN "Service Error" ELSE "Serve Out")
           /\ ret'.event.is_scoring
           /\ \E opp \in SidesOnly \ {last_bounce_side} :
                 /\ OnePointTo(opp)
                 /\ ret'.event.scoring_side = side_value(opp)
           /\ phase' = WAITING_FOR_SERVE ]_vars

\* C4 witness: a serve that bounced on the table on the wrong side was scored
C4_Witness ==
    /\ ret.op = "process_bounce"
    /\ ret.event.label = "Service Error"
    /\ ret.on_table
    /\ awards >= 1

\* the tracker as constructed, before any accepted bounce
Untouched ==
    /\ phase = WAITING_FOR_SERVE
    /\ server = LEFT
    /\ score = [s \in SidesOnly |-> 0]
    /\ awards = 0
    /\ last_bounce_frame = InitialLastBounceFrame

\* C5: in WAITING_FOR_SERVE an accepted bounce that is off the table or not on the
\* server's side gives one point to the server's opponent, MISS "Service Fault" and
\* WAITING_FOR_SERVE; a first bounce on the RIGHT gives RIGHT a point, server LEFT.
C5_ServiceFault ==
    [][ /\ (/\ phase = WAITING_FOR_SERVE
            /\ AcceptedBounce
            /\ ~(ret'.on_table /\ ret'.side = server))
           => /\ ret'.event.type = "MISS"
              /\ ret'.event.label = "Service Fault"
              /\ \E opp \in SidesOnly \ {server} :
                    /\ OnePointTo(opp)
                    /\ ret'.event.scoring_side = side_value(opp)
              /\ phase' = WAITING_FOR_SERVE
        /\ (/\ Untouched
            /\ ret'.op = "process_bounce"
            /\ ret'.side = RIGHT)
           => /\ ret'.accepted
              /\ score' = [s \in SidesOnly |-> IF s = RIGHT THEN 1 ELSE 0]
              /\ server' = LEFT ]_vars

\* C5 witness: the first bounce of the session, on the RIGHT, was a service fault
C5_Witness ==
    /\ ret.op = "process_bounce"
    /\ ret.event.label = "Service Fault"
    /\ ret.side = RIGHT
    /\ awards = 1
    /\ score[RIGHT] = 1
    /\ server = LEFT

\* C6: in RALLY_IN_PROGRESS an accepted on-table bounce on the side opposite
\* last_bounce_side gives a non-scoring BOUNCE event, rally_shot_count + 1,
\* last_bounce_side = the bounce side and a rally length equal to the new count, so
\* two consecutive legal rally bounces are on opposite sides.
C6_LegalRallyBounce ==
    [][ (/\ phase = RALLY_IN_PROGRESS
         /\ AcceptedBounce
         /\ ret'.on_table
         /\ ret'.side \in SidesOnly
         /\ last_bounce_side \in SidesOnly
         /\ ret'.side # last_bounce_side)
        => /\ Upper(ret'.event.type) = "BOUNCE"
           /\ ~ret'.event.is_scoring
           /\ rally_shot_count' = rally_shot_count + 1
           /\ last_bounce_side' = ret'.side
           /\ last_bounce_side' # last_bounce_side
           /\ ret'.event.rally_length = rally_shot_count'
           /\ phase' = RALLY_IN_PROGRESS
           /\ score' = score /\ awards' = awards ]_vars

\* C6 witness: the second legal bounce of a rally
C6_Witness ==
    /\ ret.op = "process_bounce"
    /\ phase = RALLY_IN_PROGRESS
    /\ ret.event.rally_length = 4
    /\ rally_shot_count = 4

\* C7: in RALLY_IN_PROGRESS an accepted on-table bounce on the same side as
\* last_bounce_side gives one MISS "Double Bounce" event, one point to the side the
\* ball bounced on, and WAITING_FOR_SERVE.
C7_DoubleBounce ==
    [][ (/\ phase = RALLY_IN_PROGRESS
         /\ AcceptedBounce
         /\ ret'.on_table
         /\ ret'.side = last_bounce_side)
        => /\ ret'.event.type = "MISS"
           /\ ret'.event.label = "Double Bounce"
           /\ ret'.side \in SidesOnly
           /\ OnePointTo(ret'.side)
           /\ ret'.event.scoring_side = side_value(ret'.side)
           /\ phase' = WAITING_FOR_SERVE ]_vars

\* C7 witness: a same-side repeat bounce was scored for the side it landed on
C7_Witness ==
    /\ ret.op = "process_bounce"
    /\ ret.event.label = "Double Bounce"
    /\ ret.side \in SidesOnly
    /\ score[ret.side] >= 1

\* C8: in RALLY_IN_PROGRESS an accepted off-table bounce gives MISS "Ball Out", one
\* point to last_bounce_side and WAITING_FOR_SERVE; serve at 200, bounce at 800,
\* bounce at 1200 on the geometry {0, 0, 1000, 500, net 500} ends LEFT 0, RIGHT 1.
C8_BallOut ==
    [][ /\ (/\ phase = RALLY_IN_PROGRESS
            /\ AcceptedBounce
            /\ ~ret'.on_table)
           => /\ ret'.event.type = "MISS"
              /\ ret'.event.label = "Ball Out"
              /\ last_bounce_side \in SidesOnly
              /\ OnePointTo(last_bounce_side)
              /\ ret'.event.scoring_side = side_value(last_bounce_side)
              /\ phase' = WAITING_FOR_SERVE
        /\ (scenario_step' = 3)
           => /\ ret'.event.label = "Ball Out"
              /\ score' = [s \in SidesOnly |-> IF s = RIGHT THEN 1 ELSE 0]
              /\ phase' = WAITING_FOR_SERVE ]_vars

\* C8 witness: the scenario ran to its end
C8_Witness ==
    /\ scenario_step = 3
    /\ ret.event.label = "Ball Out"
    /\ score[RIGHT] = 1

\* C9: of two bounce candidates whose frames differ by less than 0.08 * fps at most
\* one is accepted: an accepted bounce is at least 0.08 * fps frames after the
\* previously accepted one.
C9_Debounce ==
    [][ (/\ AcceptedBounce
         /\ last_bounce_frame # InitialLastBounceFrame)
        => 100 * (last_bounce_frame' - last_bounce_frame) >= 8 * fps ]_vars

\* C10: finish_rally in RALLY_IN_PROGRESS with rally_shot_count = n > 0 gives one
\* point to last_bounce_side, WAITING_FOR_SERVE and a SCORE "Rally End" event whose
\* rally length is n.
C10_FinishRallyLength ==
    [][ (/\ ret'.op = "finish_rally"
         /\ phase = RALLY_IN_PROGRESS
         /\ rally_shot_count > 0)
        => /\ last_bounce_side \in SidesOnly
           /\ OnePointTo(last_bounce_side)
           /\ phase' = WAITING_FOR_SERVE
           /\ ret'.event.type = "SCORE"
           /\ ret'.event.label = "Rally End"
           /\ ret'.event.rally_length = rally_shot_count ]_vars

\* the tracker's own fields are left as they were
TrackerUnchanged ==
    UNCHANGED <<phase, server, score, rally_shot_count, rally_start_frame,
                last_bounce_side, last_bounce_frame, awards>>

\* C11: finish_rally with no rally active (WAITING_FOR_SERVE, SERVE_IN_PROGRESS or
\* rally_shot_count = 0) returns no event and changes no tracker field.
C11_FinishRallyNoOp ==
    [][ (/\ ret'.op = "finish_rally"
         /\ \/ phase \in {WAITING_FOR_SERVE, SERVE_IN_PROGRESS}
            \/ rally_shot_count = 0)
        => /\ ret'.event = NoEvent
           /\ TrackerUnchanged ]_vars

\* C12: a net hit in SERVE_IN_PROGRESS gives one point to the server's opponent, a
\* scoring MISS "Net on Serve" event and WAITING_FOR_SERVE.
C12_NetOnServe ==
    [][ (/\ ret'.op = "process_net_hit"
         /\ phase = SERVE_IN_PROGRESS)
        => /\ ret'.event.type = "MISS"
           /\ ret'.event.label = "Net on Serve"
           /\ ret'.event.is_scoring
           /\ \E opp \in SidesOnly \ {server} :
                 /\ OnePointTo(opp)
                 /\ ret'.event.scoring_side = side_value(opp)
           /\ phase' = WAITING_FOR_SERVE ]_vars

\* C12 witness: a serve was answered by a net hit
C12_Witness ==
    /\ ret.op = "process_net_hit"
    /\ ret.event.label = "Net on Serve"
    /\ awards >= 1
    /\ phase = WAITING_FOR_SERVE

\* C13: a net hit in RALLY_IN_PROGRESS gives one non-scoring NET_HIT event and
\* changes no tracker field; a net hit in WAITING_FOR_SERVE gives no event and
\* changes nothing.
C13_NetHitOutsideServe ==
    [][ /\ (/\ ret'.op = "process_net_hit"
            /\ phase = RALLY_IN_PROGRESS)
           => /\ Upper(ret'.event.type) = "NET_HIT"
              /\ ret'.event.label = "Net Hit"
              /\ ~ret'.event.is_scoring
              /\ TrackerUnchanged
        /\ (/\ ret'.op = "process_net_hit"
            /\ phase = WAITING_FOR_SERVE)
           => /\ ret'.event = NoEvent
              /\ TrackerUnchanged ]_vars

\* C13 witness: a net hit during a rally of two shots
C13_Witness ==
    /\ ret.op = "process_net_hit"
    /\ ret.event.label = "Net Hit"
    /\ phase = RALLY_IN_PROGRESS
    /\ rally_shot_count = 2

\* C14: right after every point award the phase is WAITING_FOR_SERVE,
\* rally_shot_count is 0 and last_bounce_side is UNKNOWN.
C14_AwardResets ==
    [][ (awards' # awards)
        => /\ phase' = WAITING_FOR_SERVE
           /\ rally_shot_count' = 0
           /\ last_bounce_side' = UNKNOWN ]_vars

\* C14 witness: a point awarded by the timeout, after points awarded by a bounce
C14_Witness ==
    /\ ret.op = "finish_rally"
    /\ ret.event.is_scoring
    /\ awards >= 2
    /\ phase = WAITING_FOR_SERVE

ReachedPhases == {WAITING_FOR_SERVE, SERVE_IN_PROGRESS, RALLY_IN_PROGRESS}

\* C15: the phase is always one of WAITING_FOR_SERVE, SERVE_IN_PROGRESS,
\* RALLY_IN_PROGRESS, never POINT_SCORED, and every bounce, net-hit and timeout
\* input has a successor phase among the three.
C15_PhaseClosed ==
    /\ phase \in ReachedPhases
    /\ phase # POINT_SCORED
    /\ \A f \in NextFrames :
          /\ \A x \in XS, y \in YS :
                process_bounce(Self, f, x, y, table_bounds).self.phase \in ReachedPhases
          /\ process_net_hit(Self).self.phase \in ReachedPhases
          /\ finish_rally(Self, f).self.phase \in ReachedPhases

\* C15 witness: a rally in progress after a point has been played
C15_Witness ==
    /\ phase = RALLY_IN_PROGRESS
    /\ awards >= 1

\* C16: each score is a non-negative integer that never decreases, and no call
\* raises the total by more than 1.
C16_ScoreMonotone ==
    [][ /\ \A s \in SidesOnly :
              /\ score[s] \in Nat
              /\ score'[s] \in Nat
              /\ score'[s] >= score[s]
        /\ total_points(score') <= total_points(score) + 1 ]_vars

\* C16 witness: both sides have scored
C16_Witness ==
    /\ score[LEFT] >= 1
    /\ score[RIGHT] >= 1

\* C17: the counter goes up by one on a frame without a detection and back to 0 on
\* a frame with one; finish_rally is called exactly on the frames where the counter
\* exceeds 30, the 31st frame in a row without a detection since the latest
\* detection or finish_rally call, and then the counter is 0 again; it ends every
\* frame within 0 .. 30.
C17_NoDetectionCounter ==
    [][ /\ frame_idx' = frame_idx + 1
        /\ IF ball_detections' # ball_detections
           THEN /\ no_ball_frames' = 0
                /\ ret'.op # "finish_rally"
           ELSE /\ (ret'.op = "finish_rally") <=> (no_ball_frames + 1 > 30)
                /\ (ret'.op = "finish_rally") <=> (frame_idx - last_reset_frame = 31)
                /\ no_ball_frames' = (IF ret'.op = "finish_rally" THEN 0
                                      ELSE no_ball_frames + 1)
        /\ no_ball_frames' \in 0 .. 30 ]_vars

\* C17 witness: a timeout frame after the ball had been seen and lost
C17_Witness ==
    /\ ret.op = "finish_rally"
    /\ no_ball_frames = 0
    /\ ball_detections >= 1
    /\ quiet = 31

\* C18: from RALLY_IN_PROGRESS, 31 frames in a row without a detection end with
\* one point more for last_bounce_side, one SCORE event more in the output,
\* totalRallies one higher and the phase WAITING_FOR_SERVE.
C18_StalledRallyFinalized ==
    /\ (mark.phase = RALLY_IN_PROGRESS /\ quiet >= 31)
       => /\ mark.last_bounce_side \in SidesOnly
          /\ awards = mark.awards + 1
          /\ score = [mark.score EXCEPT ![mark.last_bounce_side] = @ + 1]
          /\ Len(events) = mark.n_events + 1
          /\ events[Len(events)].type = "SCORE"
          /\ total_rallies = mark.total_rallies + 1
          /\ phase = WAITING_FOR_SERVE
    /\ (phase = RALLY_IN_PROGRESS /\ quiet > 0)
       => /\ quiet = no_ball_frames
          /\ quiet <= 30
          /\ mark = Snapshot

\* C18 witness: the rally was finalized on the 31st frame without the ball
C18_Witness ==
    /\ mark.phase = RALLY_IN_PROGRESS
    /\ quiet = 31
    /\ phase = WAITING_FOR_SERVE
    /\ total_rallies = 1

EventTypes == {"SERVE", "BOUNCE", "MISS", "SCORE", "NET_HIT", "FASTEST_SHOT",
               "RALLY_HIGHLIGHT"}

\* C19: every event of the output has one of the seven upper-case types.
C19_EventTypes == \A i \in DOMAIN events : events[i].type \in EventTypes

\* C19 witness: an output with a serve, a bounce, a fast shot and a timeout score
C19_Witness ==
    /\ \E i \in DOMAIN events : events[i].type = "SERVE"
    /\ \E i \in DOMAIN events : events[i].type = "BOUNCE"
    /\ \E i \in DOMAIN events : events[i].type = "FASTEST_SHOT"
    /\ \E i \in DOMAIN events : events[i].label = "Rally End"

\* the invariant of TableGeometry
ValidGeometry(tb) ==
    /\ tb.x_min < tb.x_max
    /\ tb.y_min < tb.y_max
    /\ tb.x_min <= tb.net_x
    /\ tb.net_x <= tb.x_max

\* C20: a malformed manual calibration is rejected before any frame is processed,
\* so the geometry the detector and the tracker are built with is valid.
C20_MalformedCalibrationRejected ==
    /\ config_state \in {"calibrated", "manual", "tool"} => ValidGeometry(table_bounds)
    /\ config_state = "running" => ValidGeometry(table_bounds)

\* C21: get_side(x) is LEFT iff x < net_x, RIGHT iff x > net_x and UNKNOWN iff
\* x = net_x.
C21_GetSide ==
    out.op = "get_side"
    => /\ (out.result = LEFT) <=> (out.x < table_bounds.net_x)
       /\ (out.result = RIGHT) <=> (out.x > table_bounds.net_x)
       /\ (out.result = UNKNOWN) <=> (out.x = table_bounds.net_x)

\* C21 witness: get_side was applied to a point on the net line
C21_Witness ==
    /\ out.op = "get_side"
    /\ out.x = table_bounds.net_x
    /\ out.result = UNKNOWN

\* the rectangle of tb expanded by m on all sides, boundary included
InExpanded(tb, x, y, m) ==
    /\ tb.x_min - m <= x
    /\ x <= tb.x_max + m
    /\ tb.y_min - m <= y
    /\ y <= tb.y_max + m

\* C22: contains(x, y, m) is true iff (x, y) lies in the rectangle expanded by m,
\* boundary included, and process_bounce takes contains(x, y, 20) as on_table: the
\* first bounce of a session on the server's side is a serve iff it lies in the
\* rectangle expanded by 20, and a service fault otherwise.
C22_Contains ==
    /\ out.op = "contains"
       => (out.result <=> InExpanded(table_bounds, out.x, out.y, out.margin))
    /\ (out.op = "process_bounce" /\ out.x < table_bounds.net_x)
       => /\ (out.result.type = "serve") <=> InExpanded(table_bounds, out.x, out.y, 20)
          /\ (out.result.label = "Service Fault")
                <=> ~InExpanded(table_bounds, out.x, out.y, 20)
          /\ ret.on_table <=> InExpanded(table_bounds, out.x, out.y, 20)

\* C22 witness: a first bounce exactly on the corner of the expanded rectangle
\* was taken as a serve
C22_Witness ==
    /\ out.op = "process_bounce"
    /\ out.x = table_bounds.x_min - 20
    /\ out.y = table_bounds.y_max + 20
    /\ out.result.type = "serve"
    /\ phase = SERVE_IN_PROGRESS

\* C23: with a table the player is 1 on the LEFT side and 2 on the RIGHT side;
\* without one the player is 1 iff x is less than half the frame width, else 2.
C23_InferPlayer ==
    out.op = "_infer_player"
    => /\ out.result \in {1, 2}
       /\ (table_bounds # NoTable /\ out.x < table_bounds.net_x) => out.result = 1
       /\ (table_bounds # NoTable /\ out.x > table_bounds.net_x) => out.result = 2
       /\ table_bounds = NoTable => ((out.result = 1) <=> (2 * out.x < out.frame_width))

\* C23 witness: without a table, the pixel just left of the middle of an odd-width
\* frame went to player 1
C23_Witness ==
    /\ out.op = "_infer_player"
    /\ table_bounds = NoTable
    /\ out.frame_width = 1281
    /\ out.x = 640
    /\ out.result = 1

\* the x / y values of the four corner points
CornerCoords(k) == {corners[i][k] : i \in DOMAIN corners}

\* C25: the calibrated rectangle spans exactly the four points (x_min / x_max and
\* y_min / y_max are the least / greatest of their x and y values), net_x is the
\* midpoint of x_min and x_max and so lies between them, and
\* calibrate_from_points and TableCalibrationTool.calibrate give the same geometry
\* for the same four points, in whatever order they are named.
C25_CalibrationRectangle ==
    config_state \in {"calibrated", "tool"}
    => /\ table_bounds.x_min \in CornerCoords(1)
       /\ table_bounds.x_max \in CornerCoords(1)
       /\ table_bounds.y_min \in CornerCoords(2)
       /\ table_bounds.y_max \in CornerCoords(2)
       /\ \A i \in DOMAIN corners :
             /\ table_bounds.x_min <= corners[i][1]
             /\ corners[i][1] <= table_bounds.x_max
             /\ table_bounds.y_min <= corners[i][2]
             /\ corners[i][2] <= table_bounds.y_max
       /\ 2 * table_bounds.net_x = table_bounds.x_min + table_bounds.x_max
       /\ table_bounds.x_min <= table_bounds.net_x
       /\ table_bounds.net_x <= table_bounds.x_max
       /\ table_bounds = calibrate(corners)
       /\ table_bounds = calibrate_from_points(corners[1], corners[2], corners[4], corners[3])
       /\ table_bounds = calibrate_from_points(corners[1], corners[2], corners[3], corners[4])

\* C25 witness: four points named against their positions still give the full
\* rectangle
C25_Witness ==
    /\ config_state = "calibrated"
    /\ corners[1] = <<1000, 500>>
    /\ corners[4] = <<0, 0>>
    /\ corners[2] = <<0, 500>>
    /\ table_bounds = [x_min |-> 0, y_min |-> 0, x_max |-> 1000, y_max |-> 500,
                       net_x |-> 500]

\* C27: while the history holds fewer than 4 positions add_position returns no
\* events and makes no tracker call, so the tracker is as it was; while it holds
\* fewer than 6 no bounce candidate is produced.
C27_WarmUp ==
    [][ (out'.op = "add_position" /\ history' # history)
        => /\ Len(history') < 4
              => /\ out'.events = <<>>
                 /\ ~out'.bounced
                 /\ ~out'.netted
                 /\ ret'.op = "none"
                 /\ TrackerUnchanged
           /\ Len(history') < 6 => ~out'.bounced ]_vars

\* C27 witness: the third position, near the net after a change of direction, came
\* back without events
C27_Witness ==
    /\ Len(history) = 3
    /\ out.op = "add_position"
    /\ history[2].x = 200
    /\ history[1].x = 490
    /\ out.pos.x = 490
    /\ out.pos.y = 250
    /\ out.events = <<>>

\* the five vertical steps over the last 6 positions of the history
Steps == [i \in 1 .. 5 |-> v_y(history, i)]

\* C28: a bounce candidate is produced only when the first two steps are downward
\* beyond the threshold, the middle step is near-neutral or downward, and the last
\* two steps are both upward beyond the flipped threshold.
C28_BouncePattern ==
    (out.op = "add_position" /\ out.bounced)
    => /\ Steps[1] > velocity_threshold(fps)
       /\ 2 * Steps[2] > velocity_threshold(fps)
       /\ 10 * Steps[3] > -3 * velocity_threshold(fps)
       /\ 2 * Steps[4] < -velocity_threshold(fps)
       /\ 2 * Steps[5] < -velocity_threshold(fps)

\* C29: process_net_hit is called only when the position is within 30 px of the
\* net line and within 100 px of the table's vertical centre, and the horizontal
\* velocity fell below 30% of what it was or changed sign over the last two steps.
C29_NetHitConditions ==
    (out.op = "add_position" /\ out.netted)
    => LET n == Len(history)
           vx_before == history[n - 2].x - history[n - 1].x
           vx_after == history[n - 1].x - history[n].x
       IN  /\ n >= 4
           /\ history[n] = out.pos
           /\ Abs(out.pos.x - table_bounds.net_x) < 30
           /\ Abs(2 * out.pos.y - (table_bounds.y_min + table_bounds.y_max)) <= 200
           /\ \/ 10 * Abs(vx_after) < 3 * Abs(vx_before)
              \/ vx_before * vx_after < 0

\* C29 witness: the ball came to rest near the net and process_net_hit was called
C29_Witness ==
    /\ out.op = "add_position"
    /\ out.netted
    /\ ret.op = "process_net_hit"
    /\ history[Len(history) - 2].x = 200
    /\ history[Len(history) - 1].x = 490
    /\ out.pos = BallPosition(490, 250, frame_idx - 1)

\* C26: the history holds min(n, 40) positions after n add_position calls, never
\* more than 40; an add_position call puts its position at the end and, when the
\* history is full, drops the oldest one, keeping the order of the rest; nothing
\* else (a no-detection frame, a timeout, a point award) changes the history.
C26_HistoryWindow ==
    /\ [][ IF out'.op = "add_position" /\ ball_detections' = ball_detections + 1
           THEN /\ history' = (IF Len(history) = 40 THEN Tail(history) ELSE history)
                                 \o <<out'.pos>>
                /\ out'.pos.frame = frame_idx
           ELSE history' = history ]_vars
    /\ [](/\ Len(history) <= 40
          /\ Len(history) = Min(ball_detections, 40)
          /\ \A i \in 1 .. Len(history) - 1 : history[i].frame < history[i + 1].frame)

\* C26 witness: after 42 positions and one missed frame the history holds the
\* latest 40, the three oldest having been dropped
C26_Witness ==
    /\ ball_detections = 42
    /\ drops = 1
    /\ Len(history) = 40
    /\ history[1].frame >= 2
    /\ history[40].frame = 42
    /\ awards > 0

\* the events _detect_special_shot produces
IsSpecial(e) == e.type \in {"FASTEST_SHOT", "RALLY_HIGHLIGHT"}

\* C30: an observation yields at most one special event, by the first rule that
\* matches: speed > 70 and shot type smash: FASTEST_SHOT "Powerful Smash",
\* importance 8; else speed > 55: FASTEST_SHOT "Fast Shot", importance 6; else
\* rally_shot_count >= 10: RALLY_HIGHLIGHT "Extended Rally", importance 7; the
\* rally_shot_count is the one the frame's bounce and net-hit handling left.
C30_SpecialShot ==
    (out.op = "add_position" /\ Len(history) >= 4)
    => LET special == SelectSeq(out.events, IsSpecial)
       IN  /\ Len(special) <= 1
           /\ out.events # <<>> /\ special # <<>> => out.events[Len(out.events)] = special[1]
           /\ IF out.speed_kmh > 70 /\ out.shot_type = "smash"
              THEN /\ Len(special) = 1
                   /\ special[1].type = "FASTEST_SHOT"
                   /\ special[1].label = "Powerful Smash"
                   /\ special[1].importance = 8
              ELSE IF out.speed_kmh > 55
              THEN /\ Len(special) = 1
                   /\ special[1].type = "FASTEST_SHOT"
                   /\ special[1].label = "Fast Shot"
                   /\ special[1].importance = 6
              ELSE IF rally_shot_count >= 10
              THEN /\ Len(special) = 1
                   /\ special[1].type = "RALLY_HIGHLIGHT"
                   /\ special[1].label = "Extended Rally"
                   /\ special[1].importance = 7
                   /\ special[1].rallyLength = rally_shot_count
              ELSE special = <<>>

\* C30 witness: the bounce that made the rally 10 shots long came back together
\* with the "Extended Rally" event of the same frame
C30_Witness ==
    /\ out.op = "add_position"
    /\ out.bounced
    /\ out.speed_kmh = 55
    /\ rally_shot_count = 10
    /\ Len(out.events) = 2
    /\ out.events[1].type = "BOUNCE"
    /\ out.events[2].label = "Extended Rally"
    /\ out.events[2].rallyLength = 10

\* C24: a frame without a detection on which the counter does not exceed 30 only
\* adds one to the counter: no tracker call is made, and the history, the tracker's
\* phase, score, server and rally fields, the events list, the number of shots
\* (one per detection) and totalRallies stay as they were.
C24_QuietFrame ==
    [][ (/\ frame_idx' = frame_idx + 1
         /\ ball_detections' = ball_detections
         /\ no_ball_frames + 1 <= 30)
        => /\ no_ball_frames' = no_ball_frames + 1
           /\ ret'.op = "none"
           /\ TrackerUnchanged
           /\ UNCHANGED <<events, total_rallies, history_len, history, fps,
                          table_bounds>> ]_vars

\* C24 witness: the 30th frame in a row without the ball, in the middle of a rally
C24_Witness ==
    /\ phase = RALLY_IN_PROGRESS
    /\ quiet = 30
    /\ no_ball_frames = 30
    /\ ret.op = "none"
    /\ events # <<>>

\* C34: a bounce candidate discarded by the debounce check returns no event and
\* leaves every tracker field as it was, last_bounce_frame included, so a later
\* candidate is still measured against the last accepted bounce; add_position
\* puts no event in its result for it; an accepted bounce, scoring or not, sets
\* last_bounce_frame to its frame.
C34_DiscardedCandidate ==
    /\ [][ /\ (ret'.op = "process_bounce" /\ ~ret'.accepted)
              => /\ ret'.event = NoEvent
                 /\ TrackerUnchanged
           /\ AcceptedBounce => last_bounce_frame' = frame_idx' ]_vars
    /\ [](\A f \in NextFrames, x \in XS, y \in YS :
             LET r == add_position(Self, BounceWindow, f, x, y, table_bounds,
                                   TRUE, FALSE, SlowSpeed, "rally")
             IN  ~r.ret.accepted => r.events = <<>> /\ r.self = Self)

\* a candidate one frame after an accepted bounce was discarded and the accepted
\* bounce's frame is still the one the tracker remembers
C34_Witness ==
    /\ ret.op = "process_bounce"
    /\ ~ret.accepted
    /\ frame_idx = last_bounce_frame + 1
    /\ phase = RALLY_IN_PROGRESS

\* C37: in every reachable state the phase and the rally state agree: in
\* WAITING_FOR_SERVE rally_shot_count = 0 and last_bounce_side = UNKNOWN, in
\* SERVE_IN_PROGRESS rally_shot_count = 1 and last_bounce_side = server, in
\* RALLY_IN_PROGRESS rally_shot_count >= 2 and last_bounce_side is LEFT or RIGHT.
C37_PhaseRallyConsistent ==
    /\ phase = WAITING_FOR_SERVE
          => rally_shot_count = 0 /\ last_bounce_side = UNKNOWN
    /\ phase = SERVE_IN_PROGRESS
          => rally_shot_count = 1 /\ last_bounce_side = server
    /\ phase = RALLY_IN_PROGRESS
          => rally_shot_count >= 2 /\ last_bounce_side \in SidesOnly

\* C36: one add_position call (bounce handling, then net-hit handling on the
\* same frame) awards at most one point, also when the frame gives both a bounce
\* candidate and a net-hit candidate: over the calls a run makes, and in every
\* reachable tracker state for every position near the net with both candidates
\* present, once the debounce window has passed.
C36_OnePointPerObservation ==
    /\ [][ out'.op = "add_position"
           => /\ awards' <= awards + 1
              /\ total_points(score') <= total_points(score) + 1 ]_vars
    /\ [](\A p \in {q \in DPositions : near_net(table_bounds, q[1], NetThreshold)} :
             LET r == add_position(Self, BounceWindow, frame_idx + DebounceFrames(fps),
                                   p[1], p[2], table_bounds, TRUE, TRUE, SlowSpeed,
                                   "rally")
             IN  /\ r.self.awards <= awards + 1
                 /\ total_points(r.self.score) <= total_points(score) + 1)

\* the latest observation was both a bounce candidate (a legal serve) and a
\* net-hit candidate (a "Net on Serve" fault), and one point was awarded
C36_Witness ==
    /\ out.op = "add_position"
    /\ out.bounced
    /\ out.netted
    /\ Len(out.events) = 2
    /\ out.events[1].type = "SERVE"
    /\ out.events[2].label = "Net on Serve"
    /\ awards = 1

\* a BOUNCE event of the output that carries the tracker's rally length
RallyBounce(e) == e.type = "BOUNCE" /\ e.rally_length # Absent

\* C31: at the end of the stream the events behind avgRallyLength are the BOUNCE
\* events that carried a rally length: a run with at least one legal rally-phase
\* bounce reports avgRallyLength as the mean (rounded to one decimal, here in
\* tenths) of the rally lengths of those BOUNCE events.
C31_AvgRallyLength ==
    (statistics.written /\ \E i \in DOMAIN events : RallyBounce(events[i]))
    => LET bounce_events == SelectSeq(events, RallyBounce)
           rally_lengths == [i \in DOMAIN bounce_events |-> bounce_events[i].rally_length]
       IN  statistics.avgRallyLength
           = RoundTenths(SumSeq(rally_lengths), Len(rally_lengths))

\* the events of the output that end a rally by the no-detection timeout
RallyEnds == SelectSeq(events, LAMBDA e : e.label = "Rally End")

ScoringEvents == SelectSeq(events, LAMBDA e : e.is_scoring)
ScoringFor(v) == SelectSeq(events, LAMBDA e : e.is_scoring /\ e.scoring_side = v)

\* C35: every output event with is_scoring true stands for one score increment:
\* its type is SCORE and its scoring_side is 1 (LEFT) or 2 (RIGHT), and at the end
\* of the stream the scoring events number player1Score + player2Score, those
\* naming side 1 numbering player1Score and those naming side 2 player2Score.
C35_ScoringEventsMatchScore ==
    /\ \A i \in DOMAIN events :
          events[i].is_scoring
          => events[i].type = "SCORE" /\ events[i].scoring_side \in {1, 2}
    /\ statistics.written
          => /\ Len(ScoringEvents) = statistics.player1Score + statistics.player2Score
             /\ Len(ScoringFor(1)) = statistics.player1Score
             /\ Len(ScoringFor(2)) = statistics.player2Score

\* the event types the tracker is behind
TrackerEventTypes == {"SERVE", "BOUNCE", "MISS", "SCORE", "NET_HIT"}

\* C38: in a session without table geometry the tracker receives no bounce and no
\* net hit: the phase stays WAITING_FOR_SERVE, the score 0-0, the server LEFT and
\* every other tracker field as constructed (so every timeout is a no-op), no
\* SERVE, BOUNCE, MISS, SCORE or NET_HIT event is put out, and the output reports
\* tableDetected = false; an observation that shows both the bounce and the
\* net-hit pattern, at any of the positions of DPositions, would change nothing
\* either.
C38_NoTableSession ==
    table_bounds = NoTable
    => /\ ret.op \notin {"process_bounce", "process_net_hit"}
       /\ ret.event = NoEvent
       /\ phase = WAITING_FOR_SERVE
       /\ score = [s \in {LEFT, RIGHT} |-> 0]
       /\ server = LEFT
       /\ rally_shot_count = 0
       /\ rally_start_frame = 0
       /\ last_bounce_side = UNKNOWN
       /\ last_bounce_frame = InitialLastBounceFrame
       /\ awards = 0
       /\ total_rallies = 0
       /\ \A i \in DOMAIN events : events[i].type \notin TrackerEventTypes
       /\ \A p \in DPositions :
             LET r == add_position(Self, BounceWindow, frame_idx, p[1], p[2],
                                   table_bounds, TRUE, TRUE, SlowSpeed, "rally")
             IN  /\ r.self = Self
                 /\ r.ret = NoCall
                 /\ \A i \in DOMAIN r.events : r.events[i].type \notin TrackerEventTypes
       /\ statistics.written
             => /\ ~statistics.tableDetected
                /\ statistics.player1Score = 0
                /\ statistics.player2Score = 0

\* a session without a table has seen a bounce pattern (frame 5), has run into
\* the no-detection timeout, has put out events of its own and has ended
C38_Witness ==
    /\ table_bounds = NoTable
    /\ stream = "stall"
    /\ frame_idx > 12 + NoBallThreshold
    /\ ball_detections > BounceWindow
    /\ events # <<>>
    /\ statistics.written

\* the distance between a returned speed (tenths of a km/h) and a speed in units
SpeedDistance(tenths, speed) ==
    IF tenths * UnitsPerTenth >= speed
    THEN tenths * UnitsPerTenth - speed
    ELSE speed - tenths * UnitsPerTenth

\* the value the call before the k-th call of the step returned
ReturnedBefore(k) ==
    IF k = 1 THEN out.calls[Len(out.calls)].value ELSE out'.calls[k - 1].value

\* C33: when the positions current_speed_kmh samples lie on consecutive frames
\* with one displacement per frame, each call that finds a prior EMA sets the EMA
\* to 35% of the instantaneous speed plus 65% of the prior EMA (to the nearest
\* unit), and the value it returns is no farther from the instantaneous speed
\* than the value the call before it returned
C33_EmaConverges ==
    [][ (ball_detections' = ball_detections + 1 /\ out'.op = "current_speed_kmh"
         /\ out'.constant)
        => \A k \in 1 .. Len(out'.calls) :
              LET c == out'.calls[k]
              IN  (c.instant # Absent /\ c.before # Absent)
                  => /\ 100 * c.ema - (35 * c.instant + 65 * c.before) \in -50 .. 50
                     /\ out.op = "current_speed_kmh"
                     /\ SpeedDistance(c.value, c.instant)
                           <= SpeedDistance(ReturnedBefore(k), c.instant) ]_vars

\* a call on such positions has returned a value that is nearer to the
\* instantaneous speed than the EMA it found
C33_Witness ==
    /\ out.op = "current_speed_kmh"
    /\ out.constant
    /\ \E k \in 1 .. Len(out.calls) :
          LET c == out.calls[k]
          IN  /\ c.instant # Absent
              /\ c.before # Absent
              /\ c.ema # c.before
              /\ SpeedDistance(c.value, c.instant)
                    < SpeedDistance(RoundDiv(c.before, UnitsPerTenth), c.instant)

====
